---- MODULE Spec2Model ----
(***************************************************************************)
(* A model of the OpenMenuStandard library (tristanpoland/                 *)
(* OpenMenuStandard-rs): the document facade (src/document.rs), the        *)
(* validators (src/validation.rs) and the pricing engine (src/utils.rs).   *)
(*                                                                         *)
(* Conventions                                                             *)
(*   Option<T>      None is the empty tuple, Some(x) the one-tuple <<x>>.  *)
(*   Vec<T>         a sequence.                                            *)
(*   f64 amounts    integers: money in hundredths (0.75 is 75), the        *)
(*                  numeric value of a customization in whole units.  NaN  *)
(*                  and binary rounding are outside the model.             *)
(*   OmsResult<()>  a record [kind, msg, id]: kind is "Ok" or the OmsError *)
(*                  variant, msg the text of the format string, id the     *)
(*                  customization the message names.  A failed unwrap()    *)
(*                  has kind "Panic".                                      *)
(* Fields no modelled operation reads (names, descriptions, metadata,       *)
(* vendor) are left out of the records; of an item's nutrition the model   *)
(* keeps fat, with its breakdown into nutrient values.                     *)
(***************************************************************************)
EXTENDS Integers, Sequences, FiniteSets, TLC

VARIABLES
    constructed,  \* TRUE once a constructor has handed a document to the caller
    items,        \* OmsDocument.items
    order,        \* OmsDocument.order
    extensions,   \* OmsDocument.extensions: Option of a map namespace -> payload
    call,         \* the last operation invoked: [op |-> name, arg |-> its arguments]
    ret           \* what it returned: [result |-> OmsResult, value |-> Option of a value]

vars == <<constructed, items, order, extensions, call, ret>>

(***************************************************************************)
(* Bounds of the model.                                                    *)
(***************************************************************************)
MaxItems == 3      \* items of a document of the facade specification
MaxCusts == 2      \* customizations of the item under validation
MaxSels == 1       \* selections of the item under validation
MaxPriceSels == 3  \* selections handed to the pricing engine

(***************************************************************************)
(* Option, Vec and result helpers.                                         *)
(***************************************************************************)
None == <<>>
Some(x) == <<x>>
IsSome(o) == o # <<>>
IsNone(o) == o = <<>>
Unwrap(o) == o[1]

SeqUpTo(S, n) == UNION {[1..k -> S] : k \in 0..n}

Ok == [kind |-> "Ok", msg |-> "", id |-> ""]
Err(kind, msg, id) == [kind |-> kind, msg |-> msg, id |-> id]
Panic == [kind |-> "Panic", msg |-> "called unwrap on a None value", id |-> ""]

(***************************************************************************)
(* types.rs: CustomizationDefault / CustomizationSelection (the same four  *)
(* variants), CustomizationOption, Customization, SelectedCustomization.   *)
(***************************************************************************)
StringV(s) == [variant |-> "String", s |-> s, a |-> <<>>, n |-> 0, b |-> FALSE]
StringArrayV(a) == [variant |-> "StringArray", s |-> "", a |-> a, n |-> 0, b |-> FALSE]
NumberV(n) == [variant |-> "Number", s |-> "", a |-> <<>>, n |-> n, b |-> FALSE]
BooleanV(b) == [variant |-> "Boolean", s |-> "", a |-> <<>>, n |-> 0, b |-> b]

CustomizationOption(id, price) == [id |-> id, price_adjustment |-> price]

Customization(id, type, required, default, minsel, maxsel, min, max, unit, options) ==
    [id |-> id, type |-> type, required |-> required, default |-> default,
     min_selections |-> minsel, max_selections |-> maxsel,
     min |-> min, max |-> max, step |-> None,
     unit_price_adjustment |-> unit, options |-> options]

SelectedCustomization(id, selection) == [customization_id |-> id, selection |-> selection]

Item(id, price, quantity, customizations, selected, calculated) ==
    [id |-> id, base_price |-> price, quantity |-> quantity,
     customizations |-> customizations, selected_customizations |-> selected,
     calculated |-> calculated, components |-> None, nutrition |-> None]

\* MeasurementValue and the two variants of NutrientValue, in one shape
Simple(value, unit) ==
    [variant |-> "Simple", value |-> value, unit |-> unit, details |-> None]
Detailed(value, unit, details) ==
    [variant |-> "Detailed", value |-> value, unit |-> unit, details |-> details]

NutrientWithDetails(value, unit, details) ==
    [value |-> value, unit |-> unit, details |-> details]

Nutrition(fat) == [fat |-> fat]

CalculatedValues(item_price) == [item_price |-> item_price]

Payment(subtotal, tax, tip, total) ==
    [subtotal |-> subtotal, tax |-> tax, tip |-> tip, total |-> total]

Order(status, type, payment, delivery) ==
    [status |-> status, type |-> type, payment |-> payment, delivery |-> delivery]

\* A document as new and with_order build it: extensions: None
OmsDocument(its, ord) == [items |-> its, order |-> ord, extensions |-> None]

\* The document the caller holds (self)
Document == [items |-> items, order |-> order, extensions |-> extensions]

(***************************************************************************)
(* validation.rs: validate_customizations.                                 *)
(***************************************************************************)
\* options.iter().any(|opt| &opt.id == id)
has_option(options, id) == \E k \in DOMAIN options : options[k].id = id

\* number_bounds without the check against max.
number_bounds_no_max(customization, value, what) ==
    IF IsSome(customization.min) /\ value < Unwrap(customization.min)
    THEN Err("InvalidFieldValue", what \o " value is less than min", customization.id)
    ELSE Ok

\* The min/max check shared by the Quantity and the Range arm (the two arms
\* are the same code): min is looked at before max; what is "default" for a
\* definition and "selected" for a selection.
number_bounds(customization, value, what) ==
    IF IsSome(customization.min) /\ value < Unwrap(customization.min)
    THEN Err("InvalidFieldValue", what \o " value is less than min", customization.id)
    ELSE IF IsSome(customization.max) /\ value > Unwrap(customization.max)
    THEN Err("InvalidFieldValue", what \o " value is greater than max", customization.id)
    ELSE Ok

\* The min_selections/max_selections check of a MultiSelect array.
count_bounds(customization, ids, what) ==
    IF IsSome(customization.min_selections) /\ Len(ids) < Unwrap(customization.min_selections)
    THEN Err("InvalidFieldValue", what \o " count is less than min_selections", customization.id)
    ELSE IF IsSome(customization.max_selections) /\ Len(ids) > Unwrap(customization.max_selections)
    THEN Err("InvalidFieldValue", what \o " count is greater than max_selections", customization.id)
    ELSE Ok

\* One turn of the loop of validate_customizations: Ok means "go on".
validate_customization(customization) ==
    LET default == customization.default
        mismatch == Err("InvalidFieldValue", "default value type mismatch", customization.id)
    IN  CASE customization.type \in {"single_select", "multi_select"} ->
                IF IsNone(customization.options) \/ Unwrap(customization.options) = <<>>
                THEN Err("MissingRequiredField", "options for customization", customization.id)
                ELSE LET options == Unwrap(customization.options)
                         notfound == Err("InvalidFieldValue",
                                         "default value not found in options", customization.id)
                     IN  IF customization.type = "single_select"
                         THEN IF default.variant = "String"
                              THEN IF ~has_option(options, default.s) THEN notfound ELSE Ok
                              ELSE mismatch
                         ELSE IF default.variant = "StringArray"
                              THEN IF \E k \in DOMAIN default.a : ~has_option(options, default.a[k])
                                   THEN notfound
                                   ELSE count_bounds(customization, default.a, "default selections")
                              ELSE mismatch
          [] customization.type \in {"quantity", "range"} ->
                IF default.variant = "Number"
                THEN number_bounds(customization, default.n, "default")
                ELSE mismatch
          [] customization.type = "boolean" ->
                IF default.variant = "Boolean" THEN Ok ELSE mismatch
          [] customization.type = "text" ->
                IF default.variant = "String" THEN Ok ELSE mismatch

\* The loop going on after an error and returning the last one found.
RECURSIVE customizations_loop_last_error(_, _)
customizations_loop_last_error(customizations, i) ==
    IF i > Len(customizations) THEN Ok
    ELSE LET rest == customizations_loop_last_error(customizations, i + 1)
         IN  IF rest # Ok THEN rest ELSE validate_customization(customizations[i])

RECURSIVE customizations_loop(_, _)
customizations_loop(customizations, i) ==
    IF i > Len(customizations) THEN Ok
    ELSE LET r == validate_customization(customizations[i])
         IN  IF r # Ok THEN r ELSE customizations_loop(customizations, i + 1)

validate_customizations(customizations) == customizations_loop(customizations, 1)

(***************************************************************************)
(* validation.rs: validate_selected_customizations.                        *)
(***************************************************************************)
\* A lookup that returns the first customization with the id, not the last.
avail_map_get_first(available, id) ==
    LET at == {i \in DOMAIN available : available[i].id = id}
    IN  IF at = {} THEN None
        ELSE Some(available[CHOOSE i \in at : \A j \in at : i <= j])

\* avail_map: a HashMap filled by insert() in list order, so a later
\* customization with the same id replaces an earlier one.
avail_map_get(available, id) ==
    LET at == {i \in DOMAIN available : available[i].id = id}
    IN  IF at = {} THEN None
        ELSE Some(available[CHOOSE i \in at : \A j \in at : j <= i])

\* The loop over the required customizations with its test inverted: it
\* looks at the customizations that are not required.
RECURSIVE required_loop_inverted(_, _, _)
required_loop_inverted(selected, available, i) ==
    IF i > Len(available) THEN Ok
    ELSE IF ~available[i].required
            /\ ~\E k \in DOMAIN selected : selected[k].customization_id = available[i].id
         THEN Err("MissingRequiredField", "required customization not selected", available[i].id)
         ELSE required_loop_inverted(selected, available, i + 1)

\* The first required customization, in list order, that no selection names.
RECURSIVE required_loop(_, _, _)
required_loop(selected, available, i) ==
    IF i > Len(available) THEN Ok
    ELSE IF available[i].required
            /\ ~\E k \in DOMAIN selected : selected[k].customization_id = available[i].id
         THEN Err("MissingRequiredField", "required customization not selected", available[i].id)
         ELSE required_loop(selected, available, i + 1)

\* A turn of the loop that skips a selection whose id is unknown and checks
\* nothing else.
validate_selection_lenient(selection, available) ==
    IF IsNone(avail_map_get(available, selection.customization_id))
    THEN Ok
    ELSE Err("InvalidFieldValue", "selection type mismatch", selection.customization_id)

\* One turn of the loop over the selections: Ok means "go on".
validate_selection(selection, available) ==
    LET found == avail_map_get(available, selection.customization_id)
    IN  IF IsNone(found)
        THEN Err("InvalidFieldValue",
                 "selected customization not found in available customizations",
                 selection.customization_id)
        ELSE
        LET customization == Unwrap(found)
            value == selection.selection
            mismatch == Err("InvalidFieldValue", "selection type mismatch", customization.id)
            notfound == Err("InvalidFieldValue",
                            "selected value not found in options", customization.id)
        IN  CASE customization.type = "single_select" ->
                    IF value.variant = "String"
                    THEN IF IsNone(customization.options) THEN Panic
                         ELSE IF ~has_option(Unwrap(customization.options), value.s)
                              THEN notfound ELSE Ok
                    ELSE mismatch
              [] customization.type = "multi_select" ->
                    IF value.variant = "StringArray"
                    THEN IF IsNone(customization.options) THEN Panic
                         ELSE IF \E k \in DOMAIN value.a :
                                      ~has_option(Unwrap(customization.options), value.a[k])
                              THEN notfound
                              ELSE count_bounds(customization, value.a, "selections")
                    ELSE mismatch
              [] customization.type \in {"quantity", "range"} ->
                    IF value.variant = "Number"
                    THEN number_bounds(customization, value.n, "selected")
                    ELSE mismatch
              [] customization.type = "boolean" ->
                    IF value.variant = "Boolean" THEN Ok ELSE mismatch
              [] customization.type = "text" ->
                    IF value.variant = "String" THEN Ok ELSE mismatch

RECURSIVE selections_loop(_, _, _)
selections_loop(selected, available, i) ==
    IF i > Len(selected) THEN Ok
    ELSE LET r == validate_selection(selected[i], available)
         IN  IF r # Ok THEN r ELSE selections_loop(selected, available, i + 1)

\* The two phases in the other order: the selections first, then the
\* required customizations.
validate_selected_customizations_selections_first(selected, available) ==
    LET r == selections_loop(selected, available, 1)
    IN  IF r # Ok THEN r ELSE required_loop(selected, available, 1)

validate_selected_customizations(selected, available) ==
    LET missing == required_loop(selected, available, 1)
    IN  IF missing # Ok THEN missing ELSE selections_loop(selected, available, 1)

(***************************************************************************)
(* validation.rs: validate_order and validate_document.                    *)
(***************************************************************************)
Abs(x) == IF x < 0 THEN -x ELSE x

\* let epsilon = 0.01, in hundredths
epsilon == 1

\* validate_payment with the total compared by < where the code has <=.
validate_payment_zero_total(payment) ==
    IF payment.total < 0
    THEN Err("InvalidFieldValue", "payment total must be greater than zero", "")
    ELSE IF IsSome(payment.subtotal) /\ IsSome(payment.tax) /\ IsSome(payment.tip)
            /\ Abs(Unwrap(payment.subtotal) + Unwrap(payment.tax) + Unwrap(payment.tip)
                   - payment.total) > epsilon
    THEN Err("InvalidFieldValue", "payment components do not add up to total", "")
    ELSE Ok

validate_payment(payment) ==
    IF payment.total <= 0
    THEN Err("InvalidFieldValue", "payment total must be greater than zero", "")
    ELSE IF IsSome(payment.subtotal) /\ IsSome(payment.tax) /\ IsSome(payment.tip)
            /\ Abs(Unwrap(payment.subtotal) + Unwrap(payment.tax) + Unwrap(payment.tip)
                   - payment.total) > epsilon
    THEN Err("InvalidFieldValue", "payment components do not add up to total", "")
    ELSE Ok

\* validate_delivery asking for type = Delivery whenever a payload is there,
\* also when the order has no type.
validate_delivery_symmetric(ord) ==
    IF IsSome(ord.delivery) /\ ord.type # Some("delivery")
    THEN Err("InvalidFieldValue",
             "order.type must be 'delivery' when delivery information is provided", "")
    ELSE IF ord.type = Some("delivery") /\ IsNone(ord.delivery)
    THEN Err("MissingRequiredField",
             "delivery information is required for delivery orders", "")
    ELSE Ok

validate_delivery(ord) ==
    IF IsSome(ord.delivery) /\ IsSome(ord.type) /\ Unwrap(ord.type) # "delivery"
    THEN Err("InvalidFieldValue",
             "order.type must be 'delivery' when delivery information is provided", "")
    ELSE IF ord.type = Some("delivery") /\ IsNone(ord.delivery)
    THEN Err("MissingRequiredField",
             "delivery information is required for delivery orders", "")
    ELSE Ok

validate_order(ord, its) ==
    IF its = <<>> THEN Err("ValidationError", "", "")
    ELSE LET p == IF IsSome(ord.payment) THEN validate_payment(Unwrap(ord.payment)) ELSE Ok
         IN  IF p # Ok THEN p ELSE validate_delivery(ord)

\* A turn that validates the selections of the item before its definitions.
validate_item_selections_first(item) ==
    LET sel == IF IsSome(item.selected_customizations)
               THEN IF IsSome(item.customizations)
                    THEN validate_selected_customizations(
                             Unwrap(item.selected_customizations),
                             Unwrap(item.customizations))
                    ELSE Err("ValidationError", "", "")
               ELSE Ok
    IN  IF sel # Ok THEN sel
        ELSE IF IsSome(item.customizations)
        THEN validate_customizations(Unwrap(item.customizations)) ELSE Ok

\* A turn that lets selections without any customization list pass.
validate_item_ignores_orphans(item) ==
    LET c == IF IsSome(item.customizations)
             THEN validate_customizations(Unwrap(item.customizations)) ELSE Ok
    IN  IF c # Ok THEN c
        ELSE IF IsSome(item.selected_customizations) /\ IsSome(item.customizations)
        THEN validate_selected_customizations(Unwrap(item.selected_customizations),
                                              Unwrap(item.customizations))
        ELSE Ok

\* A turn that goes on into the component items of the item and validates
\* their definitions and selections the same way.
validate_item_with_components(item) ==
    LET turn(it) ==
            LET c == IF IsSome(it.customizations)
                     THEN validate_customizations(Unwrap(it.customizations)) ELSE Ok
            IN  IF c # Ok THEN c
                ELSE IF IsSome(it.selected_customizations)
                THEN IF IsSome(it.customizations)
                     THEN validate_selected_customizations(
                              Unwrap(it.selected_customizations),
                              Unwrap(it.customizations))
                     ELSE Err("ValidationError", "", "")
                ELSE Ok
        components == IF IsSome(item.components) THEN Unwrap(item.components) ELSE <<>>
        failing == {k \in DOMAIN components : turn(components[k]) # Ok}
    IN  IF turn(item) # Ok THEN turn(item)
        ELSE IF failing = {} THEN Ok
        ELSE turn(components[CHOOSE k \in failing : \A l \in failing : k <= l])

\* One turn of the loop over the items of validate_document: Ok means "go on".
validate_item(item) ==
    LET c == IF IsSome(item.customizations)
             THEN validate_customizations(Unwrap(item.customizations)) ELSE Ok
    IN  IF c # Ok THEN c
        ELSE IF IsSome(item.selected_customizations)
        THEN IF IsSome(item.customizations)
             THEN validate_selected_customizations(Unwrap(item.selected_customizations),
                                                   Unwrap(item.customizations))
             ELSE Err("ValidationError", "", "")
        ELSE Ok

\* The loop going on after an error and returning the last one found.
RECURSIVE items_loop_last_error(_, _)
items_loop_last_error(its, i) ==
    IF i > Len(its) THEN Ok
    ELSE LET rest == items_loop_last_error(its, i + 1)
         IN  IF rest # Ok THEN rest ELSE validate_item(its[i])

\* for item in &document.items { ...? }
RECURSIVE items_loop(_, _)
items_loop(its, i) ==
    IF i > Len(its) THEN Ok
    ELSE LET r == validate_item(its[i])
         IN  IF r # Ok THEN r ELSE items_loop(its, i + 1)

\* validate_document without its first check: the empty item list goes on
\* to the loop and to the order.
validate_document_no_empty_check(document) ==
    LET r == items_loop(document.items, 1)
    IN  IF r # Ok THEN r
        ELSE IF IsSome(document.order)
             THEN LET ord == Unwrap(document.order)
                      p == IF IsSome(ord.payment)
                           THEN validate_payment(Unwrap(ord.payment)) ELSE Ok
                  IN  IF p # Ok THEN p ELSE validate_delivery(ord)
             ELSE Ok

validate_document(document) ==
    IF document.items = <<>> THEN Err("ValidationError", "", "")
    ELSE LET r == items_loop(document.items, 1)
         IN  IF r # Ok THEN r
             ELSE IF IsSome(document.order)
                  THEN validate_order(Unwrap(document.order), document.items)
                  ELSE Ok

\* OmsDocument::validate
validate(document) == validate_document(document)

(***************************************************************************)
(* utils.rs: calculate_price_adjustments.                                  *)
(***************************************************************************)
\* A map that holds the first customization with an id, not the last.
customization_map_get_first(customizations, id) ==
    LET at == {i \in DOMAIN customizations : customizations[i].id = id}
    IN  IF at = {} THEN None
        ELSE Some(customizations[CHOOSE i \in at : \A j \in at : i <= j])

\* customization_map: a HashMap collected from the list, so the last
\* customization with an id is the one the map holds.
customization_map_get(customizations, id) ==
    LET at == {i \in DOMAIN customizations : customizations[i].id = id}
    IN  IF at = {} THEN None
        ELSE Some(customizations[CHOOSE i \in at : \A j \in at : j <= i])

\* for option in options { if option.id == *selected_id { ...; break; } }
RECURSIVE option_loop(_, _, _)
option_loop(options, selected_id, k) ==
    IF k > Len(options) THEN 0
    ELSE IF options[k].id = selected_id
         THEN IF IsSome(options[k].price_adjustment)
              THEN Unwrap(options[k].price_adjustment) ELSE 0
         ELSE option_loop(options, selected_id, k + 1)

\* for selected_id in selected_ids { for option in options { ... } }
RECURSIVE selected_ids_loop(_, _, _)
selected_ids_loop(options, selected_ids, k) ==
    IF k > Len(selected_ids) THEN 0
    ELSE option_loop(options, selected_ids[k], 1)
         + selected_ids_loop(options, selected_ids, k + 1)

\* selection_adjustment charging a Quantity for the units beyond its default
\* only.
selection_adjustment_extra_units(customizations, selection) ==
    LET found == customization_map_get(customizations, selection.customization_id)
    IN  IF IsNone(found) THEN 0
        ELSE
        LET customization == Unwrap(found)
            value == selection.selection
        IN  CASE customization.type = "single_select" ->
                    IF value.variant = "String" /\ IsSome(customization.options)
                    THEN option_loop(Unwrap(customization.options), value.s, 1)
                    ELSE 0
              [] customization.type = "multi_select" ->
                    IF value.variant = "StringArray" /\ IsSome(customization.options)
                    THEN selected_ids_loop(Unwrap(customization.options), value.a, 1)
                    ELSE 0
              [] customization.type = "quantity" ->
                    IF value.variant = "Number" /\ IsSome(customization.unit_price_adjustment)
                    THEN Unwrap(customization.unit_price_adjustment)
                         * (value.n - customization.default.n)
                    ELSE 0
              [] OTHER -> 0

\* What one selection adds to total_adjustment.
selection_adjustment(customizations, selection) ==
    LET found == customization_map_get(customizations, selection.customization_id)
    IN  IF IsNone(found) THEN 0
        ELSE
        LET customization == Unwrap(found)
            value == selection.selection
        IN  CASE customization.type = "single_select" ->
                    IF value.variant = "String" /\ IsSome(customization.options)
                    THEN option_loop(Unwrap(customization.options), value.s, 1)
                    ELSE 0
              [] customization.type = "multi_select" ->
                    IF value.variant = "StringArray" /\ IsSome(customization.options)
                    THEN selected_ids_loop(Unwrap(customization.options), value.a, 1)
                    ELSE 0
              [] customization.type = "quantity" ->
                    IF value.variant = "Number" /\ IsSome(customization.unit_price_adjustment)
                    THEN Unwrap(customization.unit_price_adjustment) * value.n
                    ELSE 0
              [] OTHER -> 0

\* The loop ending at the first selection whose id is unknown, instead of
\* going on to the next one.
RECURSIVE adjustments_loop_stops_at_unknown(_, _, _)
adjustments_loop_stops_at_unknown(customizations, selected, i) ==
    IF i > Len(selected) THEN 0
    ELSE IF IsNone(customization_map_get(customizations, selected[i].customization_id))
    THEN 0
    ELSE selection_adjustment(customizations, selected[i])
         + adjustments_loop_stops_at_unknown(customizations, selected, i + 1)

\* for selection in selected { ... None => continue ... }
RECURSIVE adjustments_loop(_, _, _)
adjustments_loop(customizations, selected, i) ==
    IF i > Len(selected) THEN 0
    ELSE selection_adjustment(customizations, selected[i])
         + adjustments_loop(customizations, selected, i + 1)

\* The f64 inside the Ok the function always returns.
calculate_price_adjustments(item, selected) ==
    IF IsSome(item.customizations)
    THEN adjustments_loop(Unwrap(item.customizations), selected, 1)
    ELSE 0

(***************************************************************************)
(* The inputs the specifications draw from.                                *)
(***************************************************************************)
Opts12 == <<CustomizationOption("o1", None), CustomizationOption("o2", Some(50))>>

WithStep(customization, step) == [customization EXCEPT !.step = Some(step)]

\* Customization definitions of every type, well-formed and not, under two
\* ids so that lists with a repeated id occur.
CustPool ==
    { Customization("a", "single_select", TRUE,  StringV("o1"), None, None, None, None, None, Some(Opts12)),
      Customization("a", "single_select", FALSE, StringV("ox"), None, None, None, None, None, Some(Opts12)),
      Customization("b", "single_select", FALSE, StringV("o1"), None, None, None, None, None, None),
      Customization("b", "multi_select",  FALSE, StringArrayV(<<"o1">>), Some(1), Some(1), None, None, None, Some(Opts12)),
      Customization("b", "multi_select",  FALSE, StringArrayV(<<"o1", "o2">>), None, Some(1), None, None, None, Some(Opts12)),
      Customization("a", "multi_select",  FALSE, StringArrayV(<<"o1">>), Some(1), None, None, None, None, Some(Opts12)),
      WithStep(Customization("a", "quantity", FALSE, NumberV(2), None, None, Some(1), Some(3), Some(75), None), 2),
      Customization("b", "quantity",      TRUE,  NumberV(3), None, None, None, Some(3), Some(75), None),
      Customization("a", "quantity",      FALSE, NumberV(4), None, None, None, Some(3), None, None),
      Customization("b", "range",         FALSE, NumberV(2), None, None, Some(2), None, None, None),
      Customization("a", "range",         FALSE, NumberV(0), None, None, Some(1), None, None, None),
      Customization("a", "boolean",       FALSE, BooleanV(TRUE), None, None, None, None, None, None),
      Customization("b", "text",          TRUE,  StringV("o1"), None, None, None, None, None, None),
      Customization("b", "boolean",       FALSE, NumberV(1), None, None, None, None, None, None) }

\* Selections: every variant, ids that resolve and one that does not.
SelPool ==
    { SelectedCustomization("a", StringV("o1")),
      SelectedCustomization("a", StringV("ox")),
      SelectedCustomization("a", NumberV(2)),
      SelectedCustomization("a", NumberV(0)),
      SelectedCustomization("a", BooleanV(TRUE)),
      SelectedCustomization("a", StringArrayV(<<>>)),
      SelectedCustomization("b", StringArrayV(<<"o1">>)),
      SelectedCustomization("b", StringArrayV(<<"o1", "o2">>)),
      SelectedCustomization("b", StringArrayV(<<"ox">>)),
      SelectedCustomization("b", NumberV(2)),
      SelectedCustomization("b", NumberV(4)),
      SelectedCustomization("b", StringV("o1")),
      SelectedCustomization("z", StringV("o1")) }

\* Option<Vec<T>>: absent, or a list of at most n elements of S.
OptionalList(S, n) == {None} \cup {Some(l) : l \in SeqUpTo(S, n)}

Call(op, arg) == [op |-> op, arg |-> arg]
Returned(result, value) == [result |-> result, value |-> value]

(***************************************************************************)
(* SpecItem: one item with arbitrary customizations and selections, on     *)
(* which the validators are run.                                           *)
(***************************************************************************)
InitItem ==
    /\ constructed = TRUE
    /\ \E cs \in OptionalList(CustPool, MaxCusts), ss \in OptionalList(SelPool, MaxSels) :
          items = <<Item("i1", Some(450), None, cs, ss, None)>>
    /\ order = None
    /\ extensions = None
    /\ call = Call("new", <<>>)
    /\ ret = Returned(Ok, None)

\* document.validate()
Validate ==
    /\ constructed
    /\ call' = Call("validate", <<>>)
    /\ ret' = Returned(validate(Document), None)
    /\ UNCHANGED <<constructed, items, order, extensions>>

\* validate_selected_customizations(selected, available) on the two lists of
\* the first item
ValidateSelected ==
    /\ constructed
    /\ items # <<>>
    /\ IsSome(items[1].customizations)
    /\ IsSome(items[1].selected_customizations)
    /\ call' = Call("validate_selected_customizations", <<>>)
    /\ ret' = Returned(validate_selected_customizations(
                           Unwrap(items[1].selected_customizations),
                           Unwrap(items[1].customizations)), None)
    /\ UNCHANGED <<constructed, items, order, extensions>>

NextItem == Validate \/ ValidateSelected

SpecItem == InitItem /\ [][NextItem]_vars

(***************************************************************************)
(* SpecDefs: validate_customizations on lists of definitions that break    *)
(* none, one or several of its rules.                                      *)
(***************************************************************************)
DefPool ==
    { Customization("s1", "single_select", FALSE, StringV("o1"), None, None, None, None, None, Some(Opts12)),
      Customization("s2", "single_select", FALSE, StringV("ox"), None, None, None, None, None, Some(Opts12)),
      Customization("s3", "single_select", FALSE, NumberV(1), None, None, None, None, None, None),
      Customization("s4", "single_select", FALSE, StringV("o1"), None, None, None, None, None, Some(<<>>)),
      Customization("m1", "multi_select", FALSE, StringArrayV(<<"ox", "o1">>), None, Some(1), None, None, None, Some(Opts12)),
      Customization("m2", "multi_select", FALSE, StringArrayV(<<"o1", "o2">>), Some(3), Some(1), None, None, None, Some(Opts12)),
      Customization("m3", "multi_select", FALSE, StringV("o1"), Some(1), None, None, None, None, Some(Opts12)),
      Customization("m4", "multi_select", FALSE, StringArrayV(<<"o1", "o2">>), Some(2), Some(2), None, None, None, Some(Opts12)),
      Customization("q1", "quantity", FALSE, NumberV(4), None, None, None, Some(3), None, None),
      Customization("q2", "quantity", FALSE, NumberV(2), None, None, Some(3), Some(1), None, None),
      Customization("r1", "range", FALSE, NumberV(0), None, None, Some(1), None, None, None),
      Customization("b1", "boolean", FALSE, NumberV(1), None, None, None, None, None, None),
      Customization("t1", "text", FALSE, StringV("o1"), None, None, None, None, None, None) }

InitDefs ==
    /\ constructed = TRUE
    /\ \E cs \in SeqUpTo(DefPool, MaxCusts) :
          items = <<Item("i1", Some(450), None, Some(cs), None, None)>>
    /\ order = None
    /\ extensions = None
    /\ call = Call("new", <<>>)
    /\ ret = Returned(Ok, None)

\* validate_customizations(customizations) on the list of the first item
ValidateCustomizations ==
    /\ constructed
    /\ items # <<>>
    /\ IsSome(items[1].customizations)
    /\ call' = Call("validate_customizations", <<>>)
    /\ ret' = Returned(validate_customizations(Unwrap(items[1].customizations)), None)
    /\ UNCHANGED <<constructed, items, order, extensions>>

NextDefs == ValidateCustomizations \/ Validate

SpecDefs == InitDefs /\ [][NextDefs]_vars

(***************************************************************************)
(* SpecOrder: validate_order on orders of every shape.                     *)
(***************************************************************************)
PlainItem == Item("i1", Some(1000), Some(1), None, None, None)

Totals == (-1 .. 1) \cup (1278 .. 1282)

PaymentSet ==
    { Payment(st, tx, tp, tot) :
        st \in {None, Some(0), Some(1000)}, tx \in {None, Some(0), Some(80)},
        tp \in {None, Some(0), Some(200)}, tot \in Totals }

OrderSet ==
    { Order(st, ty, pay, del) :
        st \in {None, Some("draft")},
        ty \in {None, Some("pickup"), Some("delivery"), Some("dine_in")},
        pay \in {None} \cup {Some(p) : p \in PaymentSet},
        del \in {None, Some("address")} }

InitOrder ==
    /\ constructed = TRUE
    /\ items \in {<<>>, <<PlainItem>>}
    /\ \E o \in OrderSet : order = Some(o)
    /\ extensions = None
    /\ call = Call("with_order", <<>>)
    /\ ret = Returned(Ok, None)

\* validate_order(order, &document.items) where validate_document calls it,
\* the one place the program calls this private function from: the item list
\* is not empty and every item has passed
ValidateOrder ==
    /\ constructed
    /\ items # <<>>
    /\ items_loop(items, 1) = Ok
    /\ IsSome(order)
    /\ call' = Call("validate_order", <<>>)
    /\ ret' = Returned(validate_order(Unwrap(order), items), None)
    /\ UNCHANGED <<constructed, items, order, extensions>>

NextOrder == ValidateOrder \/ Validate

SpecOrder == InitOrder /\ [][NextOrder]_vars

(***************************************************************************)
(* SpecPrice: calculate_price_adjustments on the coffee-shop customizations*)
(* (utils.rs, create_coffee_shop_template) and variations of them.         *)
(***************************************************************************)
SizeOptions == <<CustomizationOption("small", Some(-50)),
                 CustomizationOption("medium", Some(0)),
                 CustomizationOption("large", Some(50))>>
MilkOptions == <<CustomizationOption("whole", None),
                 CustomizationOption("almond", Some(75))>>
FlavorOptions == <<CustomizationOption("vanilla", Some(50)),
                   CustomizationOption("caramel", Some(50)),
                   CustomizationOption("vanilla", Some(99))>>

size == Customization("size", "single_select", TRUE, StringV("medium"),
                      None, None, None, None, None, Some(SizeOptions))
milk == Customization("milk", "single_select", TRUE, StringV("whole"),
                      None, None, None, None, None, Some(MilkOptions))
shots == Customization("shots", "quantity", TRUE, NumberV(2),
                       None, None, Some(1), Some(5), Some(75), None)
flavor == Customization("flavor", "multi_select", FALSE, StringArrayV(<<>>),
                        Some(0), Some(3), None, None, None, Some(FlavorOptions))
shots_free == Customization("shots", "quantity", FALSE, NumberV(2),
                            None, None, None, None, None, None)
shots_range == Customization("shots", "range", FALSE, NumberV(2),
                             None, None, Some(1), Some(5), Some(75), None)
size_text == Customization("size", "text", FALSE, StringV("large"),
                           None, None, None, None, None, Some(SizeOptions))
milk_boolean == Customization("milk", "boolean", FALSE, BooleanV(TRUE),
                              None, None, None, None, None, Some(MilkOptions))

PriceCustomizations ==
    { None,
      Some(<<>>),
      Some(<<size, milk, shots, flavor>>),
      Some(<<size, milk, shots>>),
      Some(<<size_text, milk_boolean, shots_range, flavor>>),
      Some(<<shots, shots_range, size_text, size>>),
      Some(<<shots_range, shots_free, shots>>),
      Some(<<shots, shots_free>>),
      Some(<<milk_boolean, milk>>) }

PriceSelPool ==
    { SelectedCustomization("size", StringV("large")),
      SelectedCustomization("size", StringV("small")),
      SelectedCustomization("size", NumberV(3)),
      SelectedCustomization("milk", StringV("almond")),
      SelectedCustomization("milk", StringV("whole")),
      SelectedCustomization("shots", NumberV(3)),
      SelectedCustomization("flavor", StringArrayV(<<"vanilla", "caramel">>)),
      SelectedCustomization("flavor", StringArrayV(<<"vanilla", "mint">>)),
      SelectedCustomization("foam", StringV("large")) }

\* The selections of test_calculate_price_adjustments.
TestSelections ==
    <<SelectedCustomization("size", StringV("large")),
      SelectedCustomization("milk", StringV("almond")),
      SelectedCustomization("shots", NumberV(3)),
      SelectedCustomization("flavor", StringArrayV(<<"vanilla", "caramel">>))>>

InitPrice ==
    /\ constructed = TRUE
    /\ \E cs \in PriceCustomizations,
          ss \in SeqUpTo(PriceSelPool, MaxPriceSels) \cup {TestSelections} :
          items = <<Item("latte", Some(450), None, cs, Some(ss), None)>>
    /\ order = None
    /\ extensions = None
    /\ call = Call("new", <<>>)
    /\ ret = Returned(Ok, None)

\* calculate_price_adjustments(item, selected) with the first item and its
\* own selections
CalculatePriceAdjustments ==
    /\ constructed
    /\ items # <<>>
    /\ IsSome(items[1].selected_customizations)
    /\ call' = Call("calculate_price_adjustments", <<>>)
    /\ ret' = Returned(Ok, Some(calculate_price_adjustments(
                                    items[1], Unwrap(items[1].selected_customizations))))
    /\ UNCHANGED <<constructed, items, order, extensions>>

NextPrice == CalculatePriceAdjustments \/ Validate

SpecPrice == InitPrice /\ [][NextPrice]_vars

(***************************************************************************)
(* document.rs: the facade.                                                *)
(***************************************************************************)
\* A serde_json value: t is one of "null", "string", "number", "bool",
\* "array", "object", and v the content; an object is a function on the keys
\* it holds.
J(t, v) == [t |-> t, v |-> v]

\* The object a derived Serialize writes for a struct: members is the list of
\* <<key, Option value>>, and a member whose value is None is left out
\* (skip_serializing_if = "Option::is_none").
JObject(members) ==
    LET present == {i \in DOMAIN members : IsSome(members[i][2])}
    IN  J("object", [key \in {members[i][1] : i \in present} |->
            Unwrap(members[CHOOSE i \in present : members[i][1] = key][2])])

\* What a derived Deserialize reads for an Option field: None when the key is
\* missing or null.
field(j, key) ==
    IF key \in DOMAIN j.v /\ j.v[key].t # "null" THEN Some(j.v[key]) ELSE None

\* The numbers and the strings written for an Option or a Vec (an option is
\* the tuple of at most one value), and the contents read back from them
numbers(xs) == [i \in DOMAIN xs |-> J("number", xs[i])]
strings(xs) == [i \in DOMAIN xs |-> J("string", xs[i])]
contents(js) == [i \in DOMAIN js |-> js[i].v]

\* CustomizationDefault and CustomizationSelection are #[serde(untagged)]: the
\* content of the variant is written without a tag, and the decoder takes the
\* first of String, StringArray, Number, Boolean that reads the value.
ser_value(value) ==
    CASE value.variant = "String" -> J("string", value.s)
      [] value.variant = "StringArray" -> J("array", strings(value.a))
      [] value.variant = "Number" -> J("number", value.n)
      [] value.variant = "Boolean" -> J("bool", value.b)

de_value(j) ==
    IF j.t = "string" THEN StringV(j.v)
    ELSE IF j.t = "array" /\ \A i \in DOMAIN j.v : j.v[i].t = "string"
    THEN StringArrayV(contents(j.v))
    ELSE IF j.t = "number" THEN NumberV(j.v)
    ELSE BooleanV(j.v)

\* MeasurementValue { value, unit }
ser_measurement(m) ==
    JObject(<< <<"value", Some(J("number", m.value))>>,
               <<"unit", Some(J("string", m.unit))>> >>)

\* A struct without deny_unknown_fields decodes from any object that holds its
\* required keys; further keys are ignored.
decodes_measurement(j) ==
    /\ j.t = "object"
    /\ {"value", "unit"} \subseteq DOMAIN j.v
    /\ j.v["value"].t = "number"
    /\ j.v["unit"].t = "string"

\* NutrientWithDetails { value, unit, details } and, under details, the
\* untagged NutrientValue { Simple(MeasurementValue),
\* Detailed(NutrientWithDetails) }, written as the content of its variant
RECURSIVE ser_nutrient_with_details(_)
ser_nutrient_with_details(n) ==
    JObject(<< <<"value", Some(J("number", n.value))>>,
               <<"unit", Some(J("string", n.unit))>>,
               <<"details",
                 [i \in DOMAIN n.details |->
                    J("object", [name \in DOMAIN n.details[i] |->
                        IF n.details[i][name].variant = "Simple"
                        THEN ser_measurement(n.details[i][name])
                        ELSE ser_nutrient_with_details(n.details[i][name])])]>> >>)

\* The untagged NutrientValue is decoded by trying Simple first, then Detailed.
RECURSIVE de_nutrient_with_details(_)
de_nutrient_with_details(j) ==
    LET details == field(j, "details")
    IN  NutrientWithDetails(j.v["value"].v, j.v["unit"].v,
            [i \in DOMAIN details |->
                [name \in DOMAIN details[i].v |->
                    LET d == details[i].v[name]
                    IN  IF decodes_measurement(d)
                        THEN Simple(d.v["value"].v, d.v["unit"].v)
                        ELSE LET n == de_nutrient_with_details(d)
                             IN  Detailed(n.value, n.unit, n.details)]])

\* CustomizationOption
ser_option(o) ==
    JObject(<< <<"id", Some(J("string", o.id))>>,
               <<"price_adjustment", numbers(o.price_adjustment)>> >>)
de_option(j) ==
    CustomizationOption(j.v["id"].v, contents(field(j, "price_adjustment")))

\* Customization: required is #[serde(default)], default and type are required
ser_customization(c) ==
    JObject(<< <<"id", Some(J("string", c.id))>>,
               <<"type", Some(J("string", c.type))>>,
               <<"required", Some(J("bool", c.required))>>,
               <<"default", Some(ser_value(c.default))>>,
               <<"min_selections", numbers(c.min_selections)>>,
               <<"max_selections", numbers(c.max_selections)>>,
               <<"min", numbers(c.min)>>,
               <<"max", numbers(c.max)>>,
               <<"step", numbers(c.step)>>,
               <<"unit_price_adjustment", numbers(c.unit_price_adjustment)>>,
               <<"options",
                 [i \in DOMAIN c.options |->
                    J("array", [k \in DOMAIN c.options[i] |->
                                   ser_option(c.options[i][k])])]>> >>)
de_customization(j) ==
    LET options == field(j, "options")
    IN  [id |-> j.v["id"].v, type |-> j.v["type"].v,
         required |-> IF "required" \in DOMAIN j.v THEN j.v["required"].v ELSE FALSE,
         default |-> de_value(j.v["default"]),
         min_selections |-> contents(field(j, "min_selections")),
         max_selections |-> contents(field(j, "max_selections")),
         min |-> contents(field(j, "min")),
         max |-> contents(field(j, "max")),
         step |-> contents(field(j, "step")),
         unit_price_adjustment |-> contents(field(j, "unit_price_adjustment")),
         options |-> [i \in DOMAIN options |->
                        [k \in DOMAIN options[i].v |-> de_option(options[i].v[k])]]]

\* SelectedCustomization
ser_selected(sc) ==
    JObject(<< <<"customization_id", Some(J("string", sc.customization_id))>>,
               <<"selection", Some(ser_value(sc.selection))>> >>)
de_selected(j) ==
    SelectedCustomization(j.v["customization_id"].v, de_value(j.v["selection"]))

\* Item, with its Nutrition (of which the model keeps fat) and its
\* CalculatedValues
RECURSIVE ser_item(_)
ser_item(item) ==
    JObject(<< <<"id", Some(J("string", item.id))>>,
               <<"base_price", numbers(item.base_price)>>,
               <<"nutrition",
                 [i \in DOMAIN item.nutrition |->
                    JObject(<< <<"fat",
                        [k \in DOMAIN item.nutrition[i].fat |->
                            ser_nutrient_with_details(item.nutrition[i].fat[k])]>> >>)]>>,
               <<"customizations",
                 [i \in DOMAIN item.customizations |->
                    J("array", [k \in DOMAIN item.customizations[i] |->
                                   ser_customization(item.customizations[i][k])])]>>,
               <<"selected_customizations",
                 [i \in DOMAIN item.selected_customizations |->
                    J("array", [k \in DOMAIN item.selected_customizations[i] |->
                                   ser_selected(item.selected_customizations[i][k])])]>>,
               <<"quantity", numbers(item.quantity)>>,
               <<"calculated",
                 [i \in DOMAIN item.calculated |->
                    JObject(<< <<"item_price",
                        Some(J("number", item.calculated[i].item_price))>> >>)]>>,
               <<"components",
                 [i \in DOMAIN item.components |->
                    J("array", [k \in DOMAIN item.components[i] |->
                                   ser_item(item.components[i][k])])]>> >>)

RECURSIVE de_item(_)
de_item(j) ==
    LET customizations == field(j, "customizations")
        selected == field(j, "selected_customizations")
        calculated == field(j, "calculated")
        components == field(j, "components")
        nutrition == field(j, "nutrition")
    IN  [id |-> j.v["id"].v,
         base_price |-> contents(field(j, "base_price")),
         quantity |-> contents(field(j, "quantity")),
         customizations |->
             [i \in DOMAIN customizations |->
                [k \in DOMAIN customizations[i].v |->
                    de_customization(customizations[i].v[k])]],
         selected_customizations |->
             [i \in DOMAIN selected |->
                [k \in DOMAIN selected[i].v |-> de_selected(selected[i].v[k])]],
         calculated |->
             [i \in DOMAIN calculated |->
                CalculatedValues(calculated[i].v["item_price"].v)],
         components |->
             [i \in DOMAIN components |->
                [k \in DOMAIN components[i].v |-> de_item(components[i].v[k])]],
         nutrition |->
             [i \in DOMAIN nutrition |->
                LET fat == field(nutrition[i], "fat")
                IN  Nutrition([k \in DOMAIN fat |-> de_nutrient_with_details(fat[k])])]]

\* Payment (total is required)
ser_payment(p) ==
    JObject(<< <<"subtotal", numbers(p.subtotal)>>,
               <<"tax", numbers(p.tax)>>,
               <<"tip", numbers(p.tip)>>,
               <<"total", Some(J("number", p.total))>> >>)
de_payment(j) ==
    Payment(contents(field(j, "subtotal")), contents(field(j, "tax")),
            contents(field(j, "tip")), j.v["total"].v)

\* Order, with its Delivery (address is required)
ser_order(o) ==
    JObject(<< <<"status", strings(o.status)>>,
               <<"type", strings(o.type)>>,
               <<"payment", [i \in DOMAIN o.payment |-> ser_payment(o.payment[i])]>>,
               <<"delivery",
                 [i \in DOMAIN o.delivery |->
                    JObject(<< <<"address", Some(J("string", o.delivery[i]))>> >>)]>> >>)
de_order(j) ==
    LET payment == field(j, "payment")
        delivery == field(j, "delivery")
    IN  Order(contents(field(j, "status")), contents(field(j, "type")),
              [i \in DOMAIN payment |-> de_payment(payment[i])],
              [i \in DOMAIN delivery |-> delivery[i].v["address"].v])

\* OmsDocument: items is required, order and extensions
\* (HashMap<String, serde_json::Value>) are optional
ser_document(document) ==
    JObject(<< <<"items", Some(J("array", [i \in DOMAIN document.items |->
                                              ser_item(document.items[i])]))>>,
               <<"order", [i \in DOMAIN document.order |-> ser_order(document.order[i])]>>,
               <<"extensions",
                 [i \in DOMAIN document.extensions |->
                    J("object", strings(document.extensions[i]))]>> >>)
de_document(j) ==
    LET ord == field(j, "order")
        exts == field(j, "extensions")
    IN  [items |-> [i \in DOMAIN j.v["items"].v |-> de_item(j.v["items"].v[i])],
         order |-> [i \in DOMAIN ord |-> de_order(ord[i])],
         extensions |-> [i \in DOMAIN exts |-> contents(exts[i].v)]]

\* A JSON text: malformed, or a value laid out pretty or compact.  The layout
\* is white space between the tokens, which the parser skips.
JsonText(wellformed, pretty, value) ==
    [wellformed |-> wellformed, pretty |-> pretty, value |-> value]

\* to_string_pretty(self)
to_json(document) == JsonText(TRUE, TRUE, ser_document(document))

\* to_string(self)
to_compact_json(document) == JsonText(TRUE, FALSE, ser_document(document))

\* serde_json::from_str::<OmsDocument>: an error for a text that is not JSON
\* or lacks the required "items" array
from_str(json) ==
    IF \/ ~json.wellformed
       \/ json.value.t # "object"
       \/ "items" \notin DOMAIN json.value.v
       \/ json.value.v["items"].t # "array"
    THEN [result |-> Err("SerializationError", "", ""), document |-> None]
    ELSE [result |-> Ok, document |-> Some(de_document(json.value))]

\* from_json without the call of validate().
from_json_unvalidated(json) == from_str(json)

\* OmsDocument::from_json: Result<OmsDocument>
from_json(json) ==
    LET parsed == from_str(json)
    IN  IF parsed.result # Ok THEN parsed
        ELSE LET v == validate(Unwrap(parsed.document))
             IN  IF v # Ok THEN [result |-> v, document |-> None]
                 ELSE parsed

\* parse_oms_document, and load_document_from_file once the file is read
parse_oms_document(json) == from_json(json)

add_item(its, item) == Append(its, item)

\* remove_item dropping the first item with the id only.
remove_item_first_only(its, item_id) ==
    LET at == {i \in DOMAIN its : its[i].id = item_id}
    IN  IF at = {} THEN [items |-> its, removed |-> FALSE]
        ELSE LET first == CHOOSE i \in at : \A j \in at : i <= j
             IN  [items |-> [k \in 1 .. Len(its) - 1 |->
                                IF k < first THEN its[k] ELSE its[k + 1]],
                  removed |-> TRUE]

\* items.retain(|item| item.id != item_id); items.len() < initial_len
remove_item(its, item_id) ==
    LET kept == SelectSeq(its, LAMBDA item : item.id # item_id)
    IN  [items |-> kept, removed |-> Len(kept) < Len(its)]

\* A search that returns the last item with the id, not the first.
find_item_last(its, item_id) ==
    LET at == {i \in DOMAIN its : its[i].id = item_id}
    IN  IF at = {} THEN None
        ELSE Some(its[CHOOSE i \in at : \A j \in at : j <= i])

\* self.items.iter().find(|item| item.id == item_id)
find_item(its, item_id) ==
    LET at == {i \in DOMAIN its : its[i].id = item_id}
    IN  IF at = {} THEN None
        ELSE Some(its[CHOOSE i \in at : \A j \in at : i <= j])

\* self.items.iter_mut().find(|item| item.id == item_id): the place in the
\* list the mutable reference points to
find_item_mut(its, item_id) ==
    LET at == {i \in DOMAIN its : its[i].id = item_id}
    IN  IF at = {} THEN None
        ELSE Some(CHOOSE i \in at : \A j \in at : i <= j)

set_order(ord) == Some(ord)

\* update_order_status writing the status into the order's type field.
update_order_status_wrong_field(ord, status) ==
    IF IsSome(ord)
    THEN [order |-> Some([Unwrap(ord) EXCEPT !.type = Some(status)]), result |-> Ok]
    ELSE [order |-> ord, result |-> Err("MissingRequiredField", "order", "")]

\* update_order_status attaching an order of its own when there is none.
update_order_status_creates_order(ord, status) ==
    IF IsSome(ord)
    THEN [order |-> Some([Unwrap(ord) EXCEPT !.status = Some(status)]), result |-> Ok]
    ELSE [order |-> Some(Order(Some(status), None, None, None)), result |-> Ok]

update_order_status(ord, status) ==
    IF IsSome(ord)
    THEN [order |-> Some([Unwrap(ord) EXCEPT !.status = Some(status)]), result |-> Ok]
    ELSE [order |-> ord, result |-> Err("MissingRequiredField", "order", "")]

\* The closure of the fold with the base price taking precedence over the
\* calculated price.
item_total_base_first(item) ==
    LET quantity == IF IsSome(item.quantity) THEN Unwrap(item.quantity) ELSE 1
        item_price == IF IsSome(item.base_price) THEN Unwrap(item.base_price)
                      ELSE IF IsSome(item.calculated)
                      THEN Unwrap(item.calculated).item_price ELSE 0
    IN  item_price * quantity

\* The closure of the fold: item_price * quantity of one item
item_total(item) ==
    LET base_price == IF IsSome(item.base_price) THEN Unwrap(item.base_price) ELSE 0
        quantity == IF IsSome(item.quantity) THEN Unwrap(item.quantity) ELSE 1
        item_price == IF IsSome(item.calculated)
                      THEN Unwrap(item.calculated).item_price ELSE base_price
    IN  item_price * quantity

\* self.items.iter().fold(0.0, |acc, item| acc + item_price * quantity)
RECURSIVE items_fold(_, _, _)
items_fold(its, i, acc) ==
    IF i > Len(its) THEN acc ELSE items_fold(its, i + 1, acc + item_total(its[i]))

\* calculate_total_price returning the total when it is zero too.
calculate_total_price_with_zero(document) ==
    LET items_total == items_fold(document.items, 1, 0)
    IN  IF items_total >= 0 THEN Some(items_total) ELSE None

\* OmsDocument::calculate_total_price: Option<f64>
calculate_total_price(document) ==
    LET items_total == items_fold(document.items, 1, 0)
    IN  IF items_total > 0 THEN Some(items_total) ELSE None

(***************************************************************************)
(* SpecTotal: calculate_total_price on documents whose items have every    *)
(* combination of base price, quantity and calculated price.               *)
(***************************************************************************)
PricedItems ==
    { Item("p1", None, None, None, None, None),
      Item("p2", None, Some(2), None, None, None),
      Item("p3", Some(1000), Some(1), None, None, None),
      Item("p4", Some(500), Some(2), None, None, None),
      Item("p5", Some(500), None, None, None, None),
      Item("p6", Some(500), Some(2), None, None, Some(CalculatedValues(700))),
      Item("p7", None, None, None, None, Some(CalculatedValues(300))),
      Item("p8", Some(-2000), None, None, None, None),
      Item("p9", Some(500), Some(0), None, None, None),
      Item("p10", Some(500), None, None, None, Some(CalculatedValues(0))),
      Item("p11", Some(0), None, None, None, None) }

InitTotal ==
    /\ constructed = TRUE
    /\ items \in SeqUpTo(PricedItems, MaxItems)
    /\ order = None
    /\ extensions = None
    /\ call = Call("new", <<>>)
    /\ ret = Returned(Ok, None)

\* document.calculate_total_price()
CalculateTotalPrice ==
    /\ constructed
    /\ call' = Call("calculate_total_price", <<>>)
    /\ ret' = Returned(Ok, Some(calculate_total_price(OmsDocument(items, order))))
    /\ UNCHANGED <<constructed, items, order, extensions>>

NextTotal == CalculateTotalPrice \/ Validate

SpecTotal == InitTotal /\ [][NextTotal]_vars

(***************************************************************************)
(* url.rs.  A string that goes through the URL functions is a sequence of  *)
(* characters.  The alphabet is letters, digits, ':', '/', the query        *)
(* delimiters '?', '&', '=', '#', and '+' with the blank it decodes to;     *)
(* '%' escapes, whitespace and control characters in the input are left     *)
(* out.                                                                     *)
(***************************************************************************)
OMS_URL_SCHEME == <<"o", "m", "e", "n", "u", ":", "/", "/">>

\* str::starts_with
starts_with(str, prefix) ==
    Len(str) >= Len(prefix) /\ SubSeq(str, 1, Len(prefix)) = prefix

\* The index of the first ch in str, Len(str) + 1 when there is none.
find_char(str, ch) ==
    LET at == {i \in DOMAIN str : str[i] = ch}
    IN  IF at = {} THEN Len(str) + 1 ELSE CHOOSE i \in at : \A j \in at : i <= j

\* str::split(ch): the pieces between the occurrences of ch
RECURSIVE split(_, _)
split(str, ch) ==
    LET k == find_char(str, ch)
    IN  IF k > Len(str) THEN <<str>>
        ELSE <<SubSeq(str, 1, k - 1)>> \o split(SubSeq(str, k + 1, Len(str)), ch)

\* form_urlencoded decoding of a name or value: '+' is a blank
decode(str) == [i \in DOMAIN str |-> IF str[i] = "+" THEN " " ELSE str[i]]

\* Url::query of "http://example.com/" + without_scheme: what lies between
\* the first '?' and the first '#'; None without a '?' before the '#'
url_query(without_scheme) ==
    LET before_fragment == SubSeq(without_scheme, 1, find_char(without_scheme, "#") - 1)
        q == find_char(before_fragment, "?")
    IN  IF q > Len(before_fragment) THEN None
        ELSE Some(SubSeq(before_fragment, q + 1, Len(before_fragment)))

\* Url::query_pairs: the non-empty pieces between '&', each cut at its first
\* '=' into a decoded name and a decoded value
query_pairs(query) ==
    LET pieces == SelectSeq(split(query, "&"), LAMBDA piece : piece # <<>>)
    IN  [n \in DOMAIN pieces |->
            LET eq == find_char(pieces[n], "=")
            IN  <<decode(SubSeq(pieces[n], 1, eq - 1)),
                  decode(SubSeq(pieces[n], eq + 1, Len(pieces[n])))>>]

\* The HashMap after the inserts of a list of (key, value), in order: a later
\* insert under a key replaces the earlier one
map_of(inserts) ==
    [key \in {inserts[n][1] : n \in DOMAIN inserts} |->
        LET at == {n \in DOMAIN inserts : inserts[n][1] = key}
        IN  inserts[CHOOSE n \in at : \A j \in at : j <= n][2]]

\* parse_oms_url: OmsResult<HashMap<String, String>>.  Url::parse of the
\* rebuilt http URL does not fail on this alphabet.
parse_oms_url(url) ==
    IF ~starts_with(url, OMS_URL_SCHEME)
    THEN [result |-> Err("InvalidOmsUrl", "URL must start with omenu://", ""),
          params |-> None]
    ELSE
    LET without_scheme == SubSeq(url, Len(OMS_URL_SCHEME) + 1, Len(url))
        action == split(without_scheme, "?")[1]
        query == url_query(without_scheme)
        pairs == IF IsSome(query) THEN query_pairs(Unwrap(query)) ELSE <<>>
    IN  [result |-> Ok,
         params |-> Some(map_of(<<<<<<"a", "c", "t", "i", "o", "n">>, action>>>> \o pairs))]

\* create_oms_url: Ok(url)
create_oms_url(action, vendor_id, location_id, item_id, customization_id) ==
    OMS_URL_SCHEME \o action \o <<"?", "v", "=">> \o vendor_id
    \o (IF IsSome(location_id) THEN <<"&", "l", "=">> \o Unwrap(location_id) ELSE <<>>)
    \o (IF IsSome(item_id) THEN <<"&", "i", "=">> \o Unwrap(item_id) ELSE <<>>)
    \o (IF IsSome(customization_id)
        THEN <<"&", "c", "=">> \o Unwrap(customization_id) ELSE <<>>)

create_vendor_url(vendor_id, location_id) ==
    create_oms_url(<<"v", "i", "e", "w">>, vendor_id, location_id, None, None)

create_order_url(vendor_id, item_id, location_id, customization_id) ==
    create_oms_url(<<"o", "r", "d", "e", "r">>, vendor_id, location_id, Some(item_id), customization_id)

(***************************************************************************)
(* SpecUrl: a link is built from components and parsed back; strings of    *)
(* other origin are parsed too.  A run builds and parses one link.         *)
(***************************************************************************)
UrlActions == { <<"o", "r", "d", "e", "r">>, <<"v", "i", "e", "w">>, <<"s", "h", "a", "r", "e">> }

UrlValues ==
    { <<"v", "1">>, <<"i", "1">>, <<"l", "1">>, <<"a", "&", "b">>, <<"a", "=", "b">>, <<"a", "+", "b">>, <<"a", "#", "b">>, <<"a", "?", "b">>, <<>> }

OptionalUrlValues == {None} \cup {Some(value) : value \in {<<"i", "1">>, <<"l", "1">>, <<"a", "&", "b">>, <<"a", "+", "b">>}}

RawUrls ==
    { <<>>,
      <<"h", "t", "t", "p", ":", "/", "/", "o", "r", "d", "e", "r", "?", "v", "=", "v", "1">>,
      <<"o", "m", "e", "n", "u", ":", "/", "o", "r", "d", "e", "r", "?", "v", "=", "v", "1">>,
      <<"o", "r", "d", "e", "r", "?", "v", "=", "v", "1">>,
      <<"x", "o", "m", "e", "n", "u", ":", "/", "/", "o", "r", "d", "e", "r", "?", "v", "=", "v", "1">>,
      <<"o", "m", "e", "n", "u", ":", "/", "/", "v", "i", "e", "w">>,
      <<"o", "m", "e", "n", "u", ":", "/", "/", "o", "r", "d", "e", "r", "?", "v", "=", "v", "1", "&", "v", "=", "v", "2">>,
      <<"o", "m", "e", "n", "u", ":", "/", "/", "o", "r", "d", "e", "r", "?", "a", "c", "t", "i", "o", "n", "=", "v", "i", "e", "w", "&", "&", "v">>,
      <<"o", "m", "e", "n", "u", ":", "/", "/", "o", "r", "d", "e", "r", "?", "v", "=", "v", "1", "&", "l", "=", "l", "1", "&", "i", "=", "i", "1">> }

InitUrl ==
    /\ constructed = FALSE
    /\ items = <<>>
    /\ order = None
    /\ extensions = None
    /\ call = Call("start", <<>>)
    /\ ret = Returned(Ok, None)

\* create_oms_url(action, vendor_id, location_id, item_id, customization_id)
CreateOmsUrl ==
    /\ call.op = "start"
    /\ \E action \in UrlActions, vendor_id \in UrlValues,
          location_id \in OptionalUrlValues, item_id \in OptionalUrlValues,
          customization_id \in OptionalUrlValues :
          /\ call' = Call("create_oms_url",
                          <<action, vendor_id, location_id, item_id, customization_id>>)
          /\ ret' = Returned(Ok, Some(create_oms_url(action, vendor_id, location_id,
                                                     item_id, customization_id)))
    /\ UNCHANGED <<constructed, items, order, extensions>>

\* create_order_url(vendor_id, item_id, location_id, customization_id)
CreateOrderUrl ==
    /\ call.op = "start"
    /\ \E vendor_id \in UrlValues, item_id \in UrlValues,
          location_id \in OptionalUrlValues, customization_id \in OptionalUrlValues :
          /\ call' = Call("create_order_url",
                          <<vendor_id, item_id, location_id, customization_id>>)
          /\ ret' = Returned(Ok, Some(create_order_url(vendor_id, item_id, location_id,
                                                       customization_id)))
    /\ UNCHANGED <<constructed, items, order, extensions>>

\* parse_oms_url(url), of the link just built or of another string
ParseOmsUrl ==
    /\ call.op # "parse_oms_url"
    /\ \E url \in RawUrls \cup (IF call.op \in {"create_oms_url", "create_order_url"}
                                THEN {Unwrap(ret.value)} ELSE {}) :
          LET r == parse_oms_url(url)
          IN  /\ call' = Call("parse_oms_url", <<url>>)
              /\ ret' = Returned(r.result, r.params)
    /\ UNCHANGED <<constructed, items, order, extensions>>

NextUrl == CreateOmsUrl \/ CreateOrderUrl \/ ParseOmsUrl

SpecUrl == InitUrl /\ [][NextUrl]_vars

(***************************************************************************)
(* utils.rs: extract_and_update_selections.  The preset comes out of the   *)
(* URL, so the selection made of it holds a sequence of characters.        *)
(***************************************************************************)
Digits == {"0", "1", "2", "3", "4", "5", "6", "7", "8", "9"}

DigitValue(ch) ==
    CASE ch = "0" -> 0 [] ch = "1" -> 1 [] ch = "2" -> 2 [] ch = "3" -> 3
      [] ch = "4" -> 4 [] ch = "5" -> 5 [] ch = "6" -> 6 [] ch = "7" -> 7
      [] ch = "8" -> 8 [] ch = "9" -> 9

RECURSIVE decimal(_, _, _)
decimal(str, i, acc) ==
    IF i > Len(str) THEN acc ELSE decimal(str, i + 1, 10 * acc + DigitValue(str[i]))

\* str::parse::<f64> on the strings of the alphabet: a non-empty string of
\* digits is its number, any other string of the pools is an error (None)
parse_f64(str) ==
    IF str # <<>> /\ \A i \in DOMAIN str : str[i] \in Digits
    THEN Some(decimal(str, 1, 0)) ELSE None

\* str::to_lowercase, on the capitals that occur
to_lowercase(str) ==
    [i \in DOMAIN str |->
        CASE str[i] = "Y" -> "y" [] str[i] = "E" -> "e" [] str[i] = "S" -> "s"
          [] OTHER -> str[i]]

\* The selection made of the preset for a customization of the given type
preset_selection(type, preset_id) ==
    CASE type = "single_select" -> StringV(preset_id)
      [] type = "multi_select" -> StringArrayV(<<preset_id>>)
      [] type = "quantity" ->
            NumberV(IF IsSome(parse_f64(preset_id)) THEN Unwrap(parse_f64(preset_id)) ELSE 1)
      [] type = "boolean" ->
            BooleanV(to_lowercase(preset_id) \in {<<"t", "r", "u", "e">>, <<"1">>, <<"y", "e", "s">>})
      [] type = "text" -> StringV(preset_id)
      [] type = "range" ->
            NumberV(IF IsSome(parse_f64(preset_id)) THEN Unwrap(parse_f64(preset_id)) ELSE 0)

\* The update of the selection list that pushes a new entry every time.
upsert_always_push(selected, id, selection) ==
    Append(selected, SelectedCustomization(id, selection))

\* The update of the selection list: the first entry with the id gets the
\* selection, or a new entry is pushed
upsert(selected, id, selection) ==
    LET at == {k \in DOMAIN selected : selected[k].customization_id = id}
    IN  IF at # {}
        THEN LET idx == CHOOSE k \in at : \A j \in at : k <= j
             IN  [selected EXCEPT ![idx].selection = selection]
        ELSE Append(selected, SelectedCustomization(id, selection))

\* extract_and_update_selections starting the selection list of the item
\* anew: the selections of the other customizations are dropped.
extract_and_update_selections_resets(url, its) ==
    LET parsed == parse_oms_url(url)
    IN  IF parsed.result # Ok THEN [result |-> parsed.result, items |-> its]
        ELSE
        LET params == Unwrap(parsed.params)
        IN  IF <<"c">> \in DOMAIN params
               /\ its # <<>>
               /\ IsSome(its[1].customizations)
               /\ Unwrap(its[1].customizations) # <<>>
            THEN LET first == Unwrap(its[1].customizations)[1]
                     selection == preset_selection(first.type, params[<<"c">>])
                 IN  [result |-> Ok,
                      items |-> [its EXCEPT ![1].selected_customizations =
                                    Some(upsert(<<>>, first.id, selection))]]
            ELSE [result |-> Ok, items |-> its]

\* extract_and_update_selections(url, document): the result and the items
extract_and_update_selections(url, its) ==
    LET parsed == parse_oms_url(url)
    IN  IF parsed.result # Ok THEN [result |-> parsed.result, items |-> its]
        ELSE
        LET params == Unwrap(parsed.params)
        IN  IF <<"c">> \in DOMAIN params
               /\ its # <<>>
               /\ IsSome(its[1].customizations)
               /\ Unwrap(its[1].customizations) # <<>>
            THEN LET first == Unwrap(its[1].customizations)[1]
                     selection == preset_selection(first.type, params[<<"c">>])
                     selected == IF IsSome(its[1].selected_customizations)
                                 THEN Unwrap(its[1].selected_customizations) ELSE <<>>
                 IN  [result |-> Ok,
                      items |-> [its EXCEPT ![1].selected_customizations =
                                    Some(upsert(selected, first.id, selection))]]
            ELSE [result |-> Ok, items |-> its]

(***************************************************************************)
(* SpecUpsert: links with and without a preset are applied, one after the  *)
(* other, to a document.                                                   *)
(***************************************************************************)
Presets == { <<"l", "a", "r", "g", "e">>, <<"s", "m", "a", "l", "l">>, <<"3">>, <<"1", "2">>, <<"y", "e", "s">>, <<"Y", "E", "S">>, <<"a", "+", "b">> }

UpsertUrls ==
    { create_order_url(<<"v", "1">>, <<"i", "1">>, None, Some(preset)) : preset \in Presets }
    \cup { create_order_url(<<"v", "1">>, <<"i", "1">>, None, None),
           create_vendor_url(<<"v", "1">>, Some(<<"l", "1">>)),
           <<"h", "t", "t", "p", ":", "/", "/", "o", "r", "d", "e", "r", "?", "v", "=", "v", "1">> }

UpsertCustomizations ==
    { None, Some(<<>>), Some(<<size, milk>>), Some(<<flavor, size>>), Some(<<shots>>),
      Some(<<shots_range, shots>>), Some(<<milk_boolean>>), Some(<<size_text>>) }

UpsertSelections ==
    { None, Some(<<>>),
      Some(<<SelectedCustomization("milk", StringV(<<"w", "h", "o", "l", "e">>))>>),
      Some(<<SelectedCustomization("milk", StringV(<<"w", "h", "o", "l", "e">>)),
             SelectedCustomization("size", StringV(<<"s", "m", "a", "l", "l">>))>>),
      Some(<<SelectedCustomization("size", StringV(<<"s", "m", "a", "l", "l">>)),
             SelectedCustomization("size", StringV(<<"l", "a", "r", "g", "e">>))>>) }

InitUpsert ==
    /\ constructed = TRUE
    /\ \/ items = <<>>
       \/ \E cs \in UpsertCustomizations, ss \in UpsertSelections :
             items \in { <<Item("latte", Some(450), None, cs, ss, None)>>,
                         <<Item("latte", Some(450), None, cs, ss, None), PlainItem>> }
    /\ order \in {None, Some(Order(Some("draft"), Some("delivery"), None, None))}
    /\ extensions \in {None, Some([ns \in {"loyalty"} |-> "d1"])}
    /\ call = Call("new", <<>>)
    /\ ret = Returned(Ok, None)

\* extract_and_update_selections(url, &mut document)
ExtractAndUpdateSelections ==
    /\ constructed
    /\ \E url \in UpsertUrls :
          LET r == extract_and_update_selections(url, items)
          IN  /\ items' = r.items
              /\ call' = Call("extract_and_update_selections", <<url>>)
              /\ ret' = Returned(r.result, None)
    /\ UNCHANGED <<constructed, order, extensions>>

NextUpsert == ExtractAndUpdateSelections

SpecUpsert == InitUpsert /\ [][NextUpsert]_vars

(***************************************************************************)
(* document.rs: the extension map.  It is an Option of a HashMap from a    *)
(* namespace to a serde_json::Value; the map is a function on the          *)
(* namespaces it holds, the payload an opaque value.                       *)
(***************************************************************************)
\* HashMap::new()
EmptyMap == [ns \in {} |-> ""]

\* add_extension keeping the entry a namespace already has (entry().or_insert).
add_extension_first_write_wins(exts, namespace, data) ==
    LET e == IF IsSome(exts) THEN Unwrap(exts) ELSE EmptyMap
    IN  Some([ns \in DOMAIN e \cup {namespace} |->
                 IF ns \in DOMAIN e THEN e[ns] ELSE data])

\* OmsDocument::add_extension: get_or_insert_with(HashMap::new), then insert
add_extension(exts, namespace, data) ==
    LET e == IF IsSome(exts) THEN Unwrap(exts) ELSE EmptyMap
    IN  Some([ns \in DOMAIN e \cup {namespace} |->
                 IF ns = namespace THEN data ELSE e[ns]])

\* OmsDocument::get_extension: extensions.as_ref().and_then(|e| e.get(namespace))
get_extension(exts, namespace) ==
    IF IsSome(exts) /\ namespace \in DOMAIN Unwrap(exts)
    THEN Some(Unwrap(exts)[namespace])
    ELSE None

(***************************************************************************)
(* Spec: a document is constructed (new, with_order, now, from_json) and   *)
(* then changed through the facade.  A run constructs one document: when   *)
(* from_json fails the caller holds none and the run ends.                 *)
(***************************************************************************)
ItemPool ==
    { PlainItem,
      Item("i2", Some(450), None, Some(<<size>>), None, None),
      Item("i2", Some(450), Some(2), Some(<<size, flavor>>),
           Some(<<SelectedCustomization("size", StringV("large"))>>), None),
      Item("i3", None, None, None, Some(<<>>), None),
      Item("i1", Some(450), None, Some(<<size>>), Some(<<>>), None) }

ItemIds == {"i1", "i2", "i3", "nonexistent"}

OrderPool ==
    { Order(Some("draft"), Some("pickup"), Some(Payment(Some(1000), Some(80), Some(200), 1280)), None),
      Order(None, Some("delivery"), None, Some("address")),
      Order(Some("draft"), Some("delivery"), None, None),
      Order(None, None, Some(Payment(None, None, None, 0)), None) }

Statuses == {"draft", "confirmed"}

JsonTexts ==
    { JsonText(FALSE, TRUE, J("null", <<>>)), JsonText(TRUE, TRUE, JObject(<<>>)),
      JsonText(TRUE, FALSE, JObject(<< <<"items", Some(J("null", <<>>))>> >>)) }
    \cup { to_json(OmsDocument(its, ord)) :
             its \in SeqUpTo(ItemPool, MaxItems),
             ord \in {None} \cup {Some(o) : o \in OrderPool} }

Init ==
    /\ constructed = FALSE
    /\ items = <<>>
    /\ order = None
    /\ extensions = None
    /\ call = Call("start", <<>>)
    /\ ret = Returned(Ok, None)

\* OmsDocument::new(metadata, vendor, items)
New ==
    /\ call.op = "start"
    /\ \E its \in SeqUpTo(ItemPool, MaxItems) :
          /\ items' = its
          /\ order' = None
    /\ constructed' = TRUE
    /\ extensions' = None
    /\ call' = Call("new", <<>>)
    /\ ret' = Returned(Ok, None)

\* OmsDocument::with_order(metadata, vendor, items, order)
WithOrder ==
    /\ call.op = "start"
    /\ \E its \in SeqUpTo(ItemPool, MaxItems), o \in OrderPool :
          /\ items' = its
          /\ order' = Some(o)
    /\ constructed' = TRUE
    /\ extensions' = None
    /\ call' = Call("with_order", <<>>)
    /\ ret' = Returned(Ok, None)

\* OmsDocument::now(vendor_id, vendor_name, vendor_type)
Now ==
    /\ call.op = "start"
    /\ items' = <<>>
    /\ order' = None
    /\ constructed' = TRUE
    /\ extensions' = None
    /\ call' = Call("now", <<>>)
    /\ ret' = Returned(Ok, None)

\* OmsDocument::from_json(json): the caller holds a document only on Ok
FromJson ==
    /\ call.op = "start"
    /\ \E json \in JsonTexts :
          LET r == from_json(json)
          IN  /\ call' = Call("from_json", <<json>>)
              /\ ret' = Returned(r.result, None)
              /\ IF IsSome(r.document)
                 THEN /\ constructed' = TRUE
                      /\ items' = Unwrap(r.document).items
                      /\ order' = Unwrap(r.document).order
                      /\ extensions' = Unwrap(r.document).extensions
                 ELSE UNCHANGED <<constructed, items, order, extensions>>

AddItem ==
    /\ constructed
    /\ Len(items) < MaxItems
    /\ \E item \in ItemPool :
          /\ items' = add_item(items, item)
          /\ call' = Call("add_item", <<item>>)
    /\ ret' = Returned(Ok, None)
    /\ UNCHANGED <<constructed, order, extensions>>

RemoveItem ==
    /\ constructed
    /\ \E item_id \in ItemIds :
          LET r == remove_item(items, item_id)
          IN  /\ items' = r.items
              /\ call' = Call("remove_item", <<item_id>>)
              /\ ret' = Returned(Ok, Some(r.removed))
    /\ UNCHANGED <<constructed, order, extensions>>

SetOrder ==
    /\ constructed
    /\ \E o \in OrderPool :
          /\ order' = set_order(o)
          /\ call' = Call("set_order", <<o>>)
    /\ ret' = Returned(Ok, None)
    /\ UNCHANGED <<constructed, items, extensions>>

UpdateOrderStatus ==
    /\ constructed
    /\ \E status \in Statuses :
          LET r == update_order_status(order, status)
          IN  /\ order' = r.order
              /\ call' = Call("update_order_status", <<status>>)
              /\ ret' = Returned(r.result, None)
    /\ UNCHANGED <<constructed, items, extensions>>

Next ==
    \/ New \/ WithOrder \/ Now \/ FromJson
    \/ AddItem \/ RemoveItem \/ SetOrder \/ UpdateOrderStatus
    \/ Validate

Spec == Init /\ [][Next]_vars

(***************************************************************************)
(* SpecExt: extensions are added to and read from a document, valid or     *)
(* not, and the document is validated in between.                          *)
(***************************************************************************)
\* The namespaces add_extension is called with; "nonexistent" is only read.
Namespaces == {"loyalty", "promo"}

Payloads == {"d1", "d2"}

InitExt ==
    /\ constructed = TRUE
    /\ items \in {<<>>} \cup {<<item>> : item \in ItemPool}
    /\ order \in {None} \cup {Some(o) : o \in OrderPool}
    /\ extensions = None
    /\ call = Call("start", <<>>)
    /\ ret = Returned(Ok, None)

AddExtension ==
    /\ constructed
    /\ \E namespace \in Namespaces, data \in Payloads :
          /\ extensions' = add_extension(extensions, namespace, data)
          /\ call' = Call("add_extension", <<namespace, data>>)
    /\ ret' = Returned(Ok, None)
    /\ UNCHANGED <<constructed, items, order>>

GetExtension ==
    /\ constructed
    /\ \E namespace \in Namespaces \cup {"nonexistent"} :
          /\ call' = Call("get_extension", <<namespace>>)
          /\ ret' = Returned(Ok, get_extension(extensions, namespace))
    /\ UNCHANGED <<constructed, items, order, extensions>>

NextExt == AddExtension \/ GetExtension \/ Validate

SpecExt == InitExt /\ [][NextExt]_vars

(***************************************************************************)
(* SpecJson: a document that passed validate() (as from_json hands it      *)
(* over), with or without an extension, loses items, is written as JSON,   *)
(* pretty or compact, and the text is read back with from_json.            *)
(***************************************************************************)
MaxJsonItems == 2

\* Fat with a breakdown of simple measurements, and with a breakdown that has
\* a breakdown of its own
FatSimple ==
    NutrientWithDetails(10, "g", Some([saturated |-> Simple(3, "g")]))
FatDetailed ==
    NutrientWithDetails(10, "g",
        Some([saturated |-> Detailed(3, "g", Some([palmitic |-> Simple(1, "g")]))]))

JsonItems ==
    { PlainItem,
      [PlainItem EXCEPT !.id = "i2", !.nutrition = Some(Nutrition(Some(FatSimple)))],
      [PlainItem EXCEPT !.id = "i3", !.nutrition = Some(Nutrition(Some(FatDetailed)))],
      [PlainItem EXCEPT !.id = "i2", !.base_price = None, !.quantity = None,
                        !.calculated = Some(CalculatedValues(700))] }
    \cup {item \in ItemPool : IsSome(item.customizations)}

InitJson ==
    /\ constructed = TRUE
    /\ items \in SeqUpTo(JsonItems, MaxJsonItems)
    /\ order \in {None} \cup {Some(o) : o \in OrderPool}
    /\ extensions \in {None, add_extension(None, "loyalty", "d1")}
    /\ validate(OmsDocument(items, order)) = Ok
    /\ call = Call("start", <<>>)
    /\ ret = Returned(Ok, None)

ToJson ==
    /\ constructed
    /\ call' = Call("to_json", <<>>)
    /\ ret' = Returned(Ok, Some(to_json(Document)))
    /\ UNCHANGED <<constructed, items, order, extensions>>

ToCompactJson ==
    /\ constructed
    /\ call' = Call("to_compact_json", <<>>)
    /\ ret' = Returned(Ok, Some(to_compact_json(Document)))
    /\ UNCHANGED <<constructed, items, order, extensions>>

\* OmsDocument::from_json of the text just written; the document read is a
\* value of its own, returned to the caller
FromJsonBack ==
    /\ call.op \in {"to_json", "to_compact_json"}
    /\ LET json == Unwrap(ret.value)
           r == from_json(json)
       IN  /\ call' = Call("from_json", <<json>>)
           /\ ret' = Returned(r.result, r.document)
    /\ UNCHANGED <<constructed, items, order, extensions>>

NextJson == ToJson \/ ToCompactJson \/ FromJsonBack \/ RemoveItem

SpecJson == InitJson /\ [][NextJson]_vars

(***************************************************************************)
(* SpecList: items are added to a document and looked up by id.            *)
(***************************************************************************)
InitList ==
    /\ constructed = TRUE
    /\ items \in SeqUpTo(ItemPool, MaxItems)
    /\ order = None
    /\ extensions = None
    /\ call = Call("start", <<>>)
    /\ ret = Returned(Ok, None)

FindItem ==
    /\ constructed
    /\ \E item_id \in ItemIds :
          /\ call' = Call("find_item", <<item_id>>)
          /\ ret' = Returned(Ok, find_item(items, item_id))
    /\ UNCHANGED <<constructed, items, order, extensions>>

FindItemMut ==
    /\ constructed
    /\ \E item_id \in ItemIds :
          /\ call' = Call("find_item_mut", <<item_id>>)
          /\ ret' = Returned(Ok, find_item_mut(items, item_id))
    /\ UNCHANGED <<constructed, items, order, extensions>>

NextList == AddItem \/ FindItem \/ FindItemMut

SpecList == InitList /\ [][NextList]_vars

(***************************************************************************)
(* SpecPass: validate() on documents whose items fail at different places  *)
(* of the pass, several at once, with and without a failing order.         *)
(***************************************************************************)
\* Items that fail in their definitions and would fail in their selections
\* too, and an item that fails on a selection of an unknown id
PassItems ==
    ItemPool \cup
    { Item("d1", Some(450), None,
           Some(<<Customization("x", "single_select", FALSE, StringV("o1"),
                                None, None, None, None, None, None)>>),
           Some(<<SelectedCustomization("x", StringV("o1"))>>), None),
      Item("d2", Some(450), None,
           Some(<<Customization("y", "boolean", TRUE, NumberV(1),
                                None, None, None, None, None, None)>>),
           Some(<<>>), None),
      Item("s1", Some(450), None, Some(<<flavor>>),
           Some(<<SelectedCustomization("foam", StringV("large"))>>), None) }

InitPass ==
    /\ constructed = TRUE
    /\ items \in SeqUpTo(PassItems, MaxItems)
    /\ order \in {None} \cup {Some(o) : o \in OrderPool}
    /\ extensions = None
    /\ call = Call("start", <<>>)
    /\ ret = Returned(Ok, None)

NextPass == Validate

SpecPass == InitPass /\ [][NextPass]_vars

(***************************************************************************)
(* utils.rs: generate_order.  The id, the two timestamps and the customer  *)
(* of the order it builds are not part of Order here; the customer_id      *)
(* argument reaches the customer alone.                                    *)
(***************************************************************************)
\* generate_order cutting the tax down to whole cents instead of rounding.
generate_order_truncating_tax(document, customer_id) ==
    LET price == calculate_total_price(document)
        subtotal == IF IsSome(price) THEN Unwrap(price) ELSE 0
        tax == (subtotal * 8) \div 100
        total == subtotal + tax
    IN  [result |-> Ok,
         order |-> Some(Order(Some("draft"), Some("pickup"),
                              Some(Payment(Some(subtotal), Some(tax), None, total)),
                              None))]

\* generate_order(document, customer_id): the result and the order it sets.
\* subtotal is in hundredths, so subtotal * tax_rate * 100.0 is
\* subtotal * 8 / 100 of them, and round() goes to the nearest whole one,
\* away from zero on a half.
generate_order(document, customer_id) ==
    LET price == calculate_total_price(document)
        subtotal == IF IsSome(price) THEN Unwrap(price) ELSE 0
        scaled == subtotal * 8
        tax == IF scaled >= 0 THEN (scaled + 50) \div 100
               ELSE 0 - ((50 - scaled) \div 100)
        total == subtotal + tax
    IN  [result |-> Ok,
         order |-> Some(Order(Some("draft"), Some("pickup"),
                              Some(Payment(Some(subtotal), Some(tax), None, total)),
                              None))]

(***************************************************************************)
(* SpecGen: generate_order on documents with and without a price, with and *)
(* without an order and extensions, valid and not.                         *)
(***************************************************************************)
GenItems ==
    { Item("g1", Some(1013), Some(2), None, None, None),
      Item("g2", Some(1019), None, None, None, None),
      Item("g3", None, None, Some(<<size>>), None, None),
      Item("g4", Some(-2000), None, None, None, None),
      Item("g5", Some(450), None, None, Some(<<>>), None) }

InitGen ==
    /\ constructed = TRUE
    /\ items \in SeqUpTo(GenItems, MaxItems)
    /\ order \in {None} \cup {Some(o) : o \in OrderPool}
    /\ extensions \in {None, add_extension(None, "loyalty", "d1")}
    /\ call = Call("start", <<>>)
    /\ ret = Returned(Ok, None)

\* generate_order(&mut document, customer_id)
GenerateOrder ==
    /\ constructed
    /\ \E customer_id \in {None, Some("c1")} :
          LET r == generate_order(Document, customer_id)
          IN  /\ order' = r.order
              /\ call' = Call("generate_order", customer_id)
              /\ ret' = Returned(r.result, None)
    /\ UNCHANGED <<constructed, items, extensions>>

NextGen == GenerateOrder \/ Validate

SpecGen == InitGen /\ [][NextGen]_vars

(***************************************************************************)
(* SpecComp: validate() and calculate_total_price() on documents whose     *)
(* items carry component items, sound and unsound, priced and not.         *)
(***************************************************************************)
CompItems ==
    { PlainItem,
      [PlainItem EXCEPT !.components =
          Some(<<Item("d1", Some(450), None,
                      Some(<<Customization("x", "single_select", FALSE, StringV("o1"),
                                           None, None, None, None, None, None)>>),
                      Some(<<SelectedCustomization("x", StringV("o1"))>>), None)>>)],
      [Item("i2", Some(450), None, Some(<<size>>), None, None) EXCEPT !.components =
          Some(<<Item("i3", None, None, None, Some(<<>>), None),
                 Item("p4", Some(500), Some(2), None, None, None)>>)],
      [Item("c3", None, None, None, None, None) EXCEPT !.components =
          Some(<<Item("s1", Some(450), Some(3), Some(<<flavor>>),
                      Some(<<SelectedCustomization("foam", StringV("large"))>>),
                      Some(CalculatedValues(700)))>>)],
      [Item("i3", None, None, None, Some(<<>>), None) EXCEPT !.components =
          Some(<<PlainItem>>)] }

InitComp ==
    /\ constructed = TRUE
    /\ items \in SeqUpTo(CompItems, MaxItems)
    /\ order \in {None} \cup {Some(o) : o \in OrderPool}
    /\ extensions = None
    /\ call = Call("start", <<>>)
    /\ ret = Returned(Ok, None)

NextComp == Validate \/ CalculateTotalPrice

SpecComp == InitComp /\ [][NextComp]_vars

(***************************************************************************)
(* The claims.                                                             *)
(***************************************************************************)
DocumentAfter == [OmsDocument(items', order') EXCEPT !.extensions = extensions']
FacadeMutations == {"add_item", "remove_item", "set_order", "update_order_status"}

\* C1 as stated: from a document that passes validate(), each of add_item,
\* remove_item, set_order and update_order_status, whatever its arguments,
\* leaves a document that passes validate().
C1_MutationsPreserveValidity ==
    [][(constructed /\ validate(Document) = Ok /\ call'.op \in FacadeMutations)
          => validate(DocumentAfter) = Ok]_vars

\* C1 as amended: from a document that passes validate(), update_order_status
\* always leaves one that passes; add_item(x) does when x passes the per-item
\* checks, remove_item when an item remains, set_order(o) when o passes
\* validate_order.
C1_GuardedMutationsPreserveValidity ==
    [][(/\ constructed
        /\ validate(Document) = Ok
        /\ \/ call'.op = "update_order_status"
           \/ call'.op = "add_item" /\ validate_item(call'.arg[1]) = Ok
           \/ call'.op = "remove_item" /\ items' # <<>>
           \/ call'.op = "set_order" /\ validate_order(call'.arg[1], items) = Ok)
          => validate(DocumentAfter) = Ok]_vars

\* C1's case: a status update has acted on a valid document with an order.
C1_Witness ==
    /\ constructed
    /\ call.op = "update_order_status"
    /\ ret.result = Ok
    /\ validate(Document) = Ok

\* C2: from_json hands a document over only if it passes validate(); a text
\* that decodes to a document failing a rule yields that validation error and
\* no document.
C2_FromJsonValidates ==
    call.op = "from_json" =>
        LET parsed == from_str(call.arg[1])
        IN  /\ ret.result = Ok => constructed /\ validate(Document) = Ok
            /\ constructed => ret.result = Ok /\ Some(Document) = parsed.document
            /\ (parsed.result = Ok /\ validate(Unwrap(parsed.document)) # Ok)
                  => /\ ~constructed
                     /\ ret.result = validate(Unwrap(parsed.document))

\* C2's case: a text that decodes, with a required customization left
\* unselected, was refused.
C2_Witness ==
    /\ call.op = "from_json"
    /\ from_str(call.arg[1]).result = Ok
    /\ ~constructed
    /\ ret.result.kind = "MissingRequiredField"

\* C3: validate() on a document with no items returns the undetailed
\* ValidationError, with or without an order.
C3_EmptyDocumentInvalid ==
    (constructed /\ call.op = "validate" /\ items = <<>>)
        => ret.result = Err("ValidationError", "", "")

\* C3's case: validate() has run on an empty document that has no order (as
\* OmsDocument::now builds it).
C3_Witness ==
    /\ constructed
    /\ call.op = "validate"
    /\ items = <<>>
    /\ order = None
    /\ extensions = None
    /\ ret.result.kind = "ValidationError"

\* The list inside an Option<Vec<T>>, empty when there is none.
ListOf(o) == IF IsSome(o) THEN Unwrap(o) ELSE <<>>

\* validate() has accepted the document.
Accepted == constructed /\ call.op = "validate" /\ ret.result = Ok

\* The positions of the customization a selection's id stands for: the last
\* one in list order that carries the id (none when no customization does).
Referenced(customizations, id) ==
    {i \in DOMAIN customizations :
        /\ customizations[i].id = id
        /\ \A j \in DOMAIN customizations : j > i => customizations[j].id # id}

\* The value variant that goes with a type tag.
VariantFor(type) ==
    CASE type \in {"single_select", "text"} -> "String"
      [] type = "multi_select" -> "StringArray"
      [] type \in {"quantity", "range"} -> "Number"
      [] type = "boolean" -> "Boolean"

\* C4 as stated: in an accepted document every required customization of
\* every item has a selection with its id among the item's selections.
C4_RequiredAlwaysSelected ==
    Accepted =>
        \A i \in DOMAIN items :
            \A k \in DOMAIN ListOf(items[i].customizations) :
                ListOf(items[i].customizations)[k].required =>
                    \E m \in DOMAIN ListOf(items[i].selected_customizations) :
                        ListOf(items[i].selected_customizations)[m].customization_id
                            = ListOf(items[i].customizations)[k].id

\* C4 as amended: in an accepted document, on every item that carries a
\* selected_customizations list, every required customization has a selection
\* with its id in that list.
C4_RequiredSelectedWhereSelectionsGiven ==
    Accepted =>
        \A i \in DOMAIN items :
            IsSome(items[i].selected_customizations) =>
                \A k \in DOMAIN ListOf(items[i].customizations) :
                    ListOf(items[i].customizations)[k].required =>
                        \E m \in DOMAIN Unwrap(items[i].selected_customizations) :
                            Unwrap(items[i].selected_customizations)[m].customization_id
                                = ListOf(items[i].customizations)[k].id

\* C4's case: an accepted item with a selection list and a required
\* customization.
C4_Witness ==
    /\ Accepted
    /\ \E i \in DOMAIN items :
          /\ IsSome(items[i].selected_customizations)
          /\ \E k \in DOMAIN ListOf(items[i].customizations) :
                ListOf(items[i].customizations)[k].required

\* Some required customization has no selection with its id.
RequiredUnselected(selected, available) ==
    \E k \in DOMAIN available :
        /\ available[k].required
        /\ \A m \in DOMAIN selected : selected[m].customization_id # available[k].id

\* C5: validate_selected_customizations returns MissingRequiredField whenever
\* a required customization has no selection, whatever the other selections
\* are and also when there are none.
C5_MissingRequiredFirst ==
    (call.op = "validate_selected_customizations"
     /\ RequiredUnselected(Unwrap(items[1].selected_customizations),
                           Unwrap(items[1].customizations)))
        => ret.result.kind = "MissingRequiredField"

\* C5's case: a required customization is unselected while the one selection
\* given names an unknown id.
C5_Witness ==
    /\ call.op = "validate_selected_customizations"
    /\ RequiredUnselected(Unwrap(items[1].selected_customizations),
                          Unwrap(items[1].customizations))
    /\ \E m \in DOMAIN Unwrap(items[1].selected_customizations) :
          Referenced(Unwrap(items[1].customizations),
                     Unwrap(items[1].selected_customizations)[m].customization_id) = {}
    /\ ret.result.kind = "MissingRequiredField"

\* Every id of ids is the id of an option of the customization.
IdsInOptions(customization, ids) ==
    \A n \in DOMAIN ids :
        \E o \in DOMAIN ListOf(customization.options) :
            ListOf(customization.options)[o].id = ids[n]

\* The option ids a value names for a Select kind.
NamedIds(value) == IF value.variant = "String" THEN <<value.s>> ELSE value.a

\* C6: in an accepted document every selection names a customization of its
\* item, its value has the variant that goes with that customization's type,
\* and for the Select kinds the option ids of every default and of every
\* selection are ids of the customization's options.
C6_VariantsAndOptionIds ==
    Accepted =>
        \A i \in DOMAIN items :
            LET cs == ListOf(items[i].customizations)
                ss == ListOf(items[i].selected_customizations)
            IN  /\ \A k \in DOMAIN cs :
                       cs[k].type \in {"single_select", "multi_select"} =>
                           IdsInOptions(cs[k], NamedIds(cs[k].default))
                /\ \A m \in DOMAIN ss :
                       /\ Referenced(cs, ss[m].customization_id) # {}
                       /\ \A k \in Referenced(cs, ss[m].customization_id) :
                             /\ ss[m].selection.variant = VariantFor(cs[k].type)
                             /\ cs[k].type \in {"single_select", "multi_select"} =>
                                    IdsInOptions(cs[k], NamedIds(ss[m].selection))

\* C6's case: an accepted item where two customizations share the id of a
\* selection.
C6_Witness ==
    /\ Accepted
    /\ \E i \in DOMAIN items :
          LET cs == ListOf(items[i].customizations)
              ss == ListOf(items[i].selected_customizations)
          IN  \E m \in DOMAIN ss :
                  Cardinality({k \in DOMAIN cs : cs[k].id = ss[m].customization_id}) = 2

\* n lies within the bounds of the customization that are set.
WithinNumberBounds(customization, n) ==
    /\ IsSome(customization.min) => n >= Unwrap(customization.min)
    /\ IsSome(customization.max) => n <= Unwrap(customization.max)

WithinCountBounds(customization, ids) ==
    /\ IsSome(customization.min_selections) => Len(ids) >= Unwrap(customization.min_selections)
    /\ IsSome(customization.max_selections) => Len(ids) <= Unwrap(customization.max_selections)

WithinBounds(customization, value) ==
    /\ customization.type = "multi_select" => WithinCountBounds(customization, value.a)
    /\ customization.type \in {"quantity", "range"} => WithinNumberBounds(customization, value.n)

\* The items with the step of every customization erased.
WithoutSteps(its) ==
    [i \in DOMAIN its |->
        IF IsSome(its[i].customizations)
        THEN [its[i] EXCEPT !.customizations =
                 Some([k \in DOMAIN Unwrap(its[i].customizations) |->
                          [Unwrap(its[i].customizations)[k] EXCEPT !.step = None]])]
        ELSE its[i]]

\* C7: in an accepted document every MultiSelect default and selection has a
\* length within [min_selections, max_selections] and every Quantity/Range
\* default and selection lies within [min, max], for each bound that is set,
\* bounds included; the step has no part in the result of validate().
C7_CardinalityAndBounds ==
    /\ Accepted =>
          \A i \in DOMAIN items :
              LET cs == ListOf(items[i].customizations)
                  ss == ListOf(items[i].selected_customizations)
              IN  /\ \A k \in DOMAIN cs : WithinBounds(cs[k], cs[k].default)
                  /\ \A m \in DOMAIN ss :
                         \A k \in Referenced(cs, ss[m].customization_id) :
                             WithinBounds(cs[k], ss[m].selection)
    /\ (constructed /\ call.op = "validate") =>
          ret.result = validate(OmsDocument(WithoutSteps(items), order))

\* C7's case: an accepted item with a numeric selection equal to the min of
\* its customization, and with a customization whose default is not a whole
\* number of steps above its min.
C7_Witness ==
    /\ Accepted
    /\ \E i \in DOMAIN items :
          LET cs == ListOf(items[i].customizations)
              ss == ListOf(items[i].selected_customizations)
          IN  /\ \E m \in DOMAIN ss :
                     \E k \in Referenced(cs, ss[m].customization_id) :
                         /\ cs[k].type \in {"quantity", "range"}
                         /\ cs[k].min = Some(ss[m].selection.n)
              /\ \E k \in DOMAIN cs :
                     /\ IsSome(cs[k].step) /\ IsSome(cs[k].min)
                     /\ (cs[k].default.n - Unwrap(cs[k].min)) % Unwrap(cs[k].step) # 0

\* The payment of the order under validation.
ThePayment == Unwrap(Unwrap(order).payment)

AllComponents(p) == IsSome(p.subtotal) /\ IsSome(p.tax) /\ IsSome(p.tip)

ComponentSum(p) == Unwrap(p.subtotal) + Unwrap(p.tax) + Unwrap(p.tip)

\* validate_order has refused the order for its payment.
PaymentRejected ==
    /\ ret.result.kind = "InvalidFieldValue"
    /\ ret.result.msg \in {"payment total must be greater than zero",
                           "payment components do not add up to total"}

\* C8: validate_order rejects every payment with total <= 0 whatever its
\* components; with subtotal, tax and tip all present (and total > 0) it
\* accepts the payment exactly when |subtotal + tax + tip - total| <= 0.01;
\* 10.00 + 0.80 + 2.00 is accepted with total 12.80, rejected with 12.82.
C8_PaymentArithmetic ==
    (call.op = "validate_order" /\ IsSome(Unwrap(order).payment)) =>
        /\ ThePayment.total <= 0 => PaymentRejected
        /\ (ThePayment.total > 0 /\ AllComponents(ThePayment)) =>
              (~PaymentRejected <=> Abs(ComponentSum(ThePayment) - ThePayment.total) <= 1)
        /\ ThePayment = Payment(Some(1000), Some(80), Some(200), 1280) => ~PaymentRejected
        /\ ThePayment = Payment(Some(1000), Some(80), Some(200), 1282) => PaymentRejected

\* C8's case: the payment 10.00 + 0.80 + 2.00 with total 12.82 was refused.
C8_Witness ==
    /\ call.op = "validate_order"
    /\ Unwrap(order).payment = Some(Payment(Some(1000), Some(80), Some(200), 1282))
    /\ PaymentRejected

\* The order's payment breaks no rule: none, or total > 0 and, when the three
\* components are there, a sum within 0.01 of the total.
NoPaymentProblem(ord) ==
    \/ IsNone(ord.payment)
    \/ /\ Unwrap(ord.payment).total > 0
       /\ AllComponents(Unwrap(ord.payment)) =>
             Abs(ComponentSum(Unwrap(ord.payment)) - Unwrap(ord.payment).total) <= 1

\* C9: for an order with no payment problem, validate_order gives
\* MissingRequiredField for type Delivery without a payload, accepts type
\* Delivery with a payload and no type with a payload, gives
\* InvalidFieldValue for Pickup or DineIn with a payload, and accepts any type
\* but Delivery without a payload.
C9_DeliveryCoupling ==
    (call.op = "validate_order" /\ NoPaymentProblem(Unwrap(order))) =>
        LET type == Unwrap(order).type
            delivery == Unwrap(order).delivery
        IN  /\ (type = Some("delivery") /\ IsNone(delivery))
                  => ret.result.kind = "MissingRequiredField"
            /\ (type = Some("delivery") /\ IsSome(delivery)) => ret.result = Ok
            /\ (type = None /\ IsSome(delivery)) => ret.result = Ok
            /\ (type \in {Some("pickup"), Some("dine_in")} /\ IsSome(delivery))
                  => ret.result.kind = "InvalidFieldValue"
            /\ (type # Some("delivery") /\ IsNone(delivery)) => ret.result = Ok

\* C9's case: an order with a delivery payload and no type was accepted.
C9_Witness ==
    /\ call.op = "validate_order"
    /\ Unwrap(order).type = None
    /\ IsSome(Unwrap(order).delivery)
    /\ IsSome(Unwrap(order).payment)
    /\ ret.result = Ok

RECURSIVE SumSeq(_)
SumSeq(q) == IF Len(q) = 0 THEN 0 ELSE Head(q) + SumSeq(Tail(q))

\* The price delta of the option of the customization that an id matches, 0
\* when none matches or the option has no delta.
OptionDelta(customization, id) ==
    LET options == ListOf(customization.options)
        at == {o \in DOMAIN options : options[o].id = id}
    IN  IF at = {} THEN 0
        ELSE LET first == CHOOSE o \in at : \A j \in at : o <= j
             IN  IF IsSome(options[first].price_adjustment)
                 THEN Unwrap(options[first].price_adjustment) ELSE 0

\* What C10 says one selection contributes.
Contribution(customizations, selection) ==
    LET ref == Referenced(customizations, selection.customization_id)
        value == selection.selection
    IN  IF ref = {} THEN 0
        ELSE LET c == customizations[CHOOSE k \in ref : TRUE]
             IN  CASE c.type = "single_select" /\ value.variant = "String" ->
                         OptionDelta(c, value.s)
                   [] c.type = "multi_select" /\ value.variant = "StringArray" ->
                         SumSeq([n \in 1 .. Len(value.a) |-> OptionDelta(c, value.a[n])])
                   [] c.type = "quantity" /\ value.variant = "Number" ->
                         value.n * (IF IsSome(c.unit_price_adjustment)
                                    THEN Unwrap(c.unit_price_adjustment) ELSE 0)
                   [] OTHER -> 0

C11_QuantityChargesExtraUnits ==
    call.op = "calculate_price_adjustments" =>
        LET cs == ListOf(items[1].customizations)
            ss == Unwrap(items[1].selected_customizations)
        IN  /\ (cs = <<size, milk, shots, flavor>> /\ ss = TestSelections)
                  => ret.value = Some(300)
            /\ (cs = <<size, milk, shots>>
                /\ ss = <<SelectedCustomization("shots", NumberV(3))>>)
                  => ret.value = Some(75 * (3 - shots.default.n))

\* unit price times quantity of one item, as C12 and C13 state it.
Amount(item) ==
    (IF item.calculated # None THEN item.calculated[1].item_price
     ELSE IF item.base_price # None THEN item.base_price[1] ELSE 0)
    * (IF item.quantity # None THEN item.quantity[1] ELSE 1)

\* The sum of the amounts of all top-level items.
AmountSum == SumSeq([i \in 1 .. Len(items) |-> Amount(items[i])])

\* What calculate_total_price returned.
TotalReturned == Unwrap(ret.value)

\* C12 as stated: calculate_total_price returns None when every item lacks
\* both a base price and a calculated price, and as soon as any item
\* contributes a positive amount it returns the sum over all items of unit
\* price times quantity.
C12_TotalPriceBoundary ==
    call.op = "calculate_total_price" =>
        /\ (\A i \in DOMAIN items :
                 IsNone(items[i].base_price) /\ IsNone(items[i].calculated))
              => TotalReturned = None
        /\ (\E i \in DOMAIN items : Amount(items[i]) > 0)
              => TotalReturned = Some(AmountSum)

\* C12 as amended: None when every item lacks both prices; when some item
\* contributes a positive amount, the sum over all items if that sum is
\* positive, and None if negative amounts bring it to zero or below.
C12_TotalPriceBoundaryOfPositiveSum ==
    call.op = "calculate_total_price" =>
        /\ (\A i \in DOMAIN items :
                 IsNone(items[i].base_price) /\ IsNone(items[i].calculated))
              => TotalReturned = None
        /\ (\E i \in DOMAIN items : Amount(items[i]) > 0)
              => /\ AmountSum > 0 => TotalReturned = Some(AmountSum)
                 /\ AmountSum <= 0 => TotalReturned = None

\* C12's case: the total of the documents of test_calculate_total_price's
\* shape, 10.00 x 1 and 5.00 x 2 beside an item without prices, was returned.
C12_Witness ==
    /\ call.op = "calculate_total_price"
    /\ Len(items) = 3
    /\ \E i \in DOMAIN items :
          IsNone(items[i].base_price) /\ IsNone(items[i].calculated)
    /\ TotalReturned = Some(2000)

\* C13: calculate_total_price computes S, the sum over the items of
\* (calculated.item_price if present, else base_price or 0) times (quantity
\* or 1), a present calculated price taking precedence over the base price,
\* and returns S if S > 0 and None otherwise: never an error, never a zero or
\* negative value.
C13_TotalPriceFormula ==
    call.op = "calculate_total_price" =>
        /\ ret.result = Ok
        /\ TotalReturned = (IF AmountSum > 0 THEN Some(AmountSum) ELSE None)
        /\ IsSome(TotalReturned) => Unwrap(TotalReturned) > 0
        /\ (Len(items) = 1 /\ IsSome(items[1].calculated) /\ IsSome(items[1].base_price))
              => TotalReturned
                   = (IF Amount([items[1] EXCEPT !.base_price = None]) > 0
                      THEN Some(Amount([items[1] EXCEPT !.base_price = None]))
                      ELSE None)

\* C13's case: an item with base price 5.00, calculated price 7.00 and
\* quantity 2 was totalled to 14.00.
C13_Witness ==
    /\ call.op = "calculate_total_price"
    /\ Len(items) = 1
    /\ items[1].base_price = Some(500)
    /\ items[1].calculated = Some(CalculatedValues(700))
    /\ TotalReturned = Some(1400)

\* The items of a list whose id is not the given one, in their order.
RECURSIVE Others(_, _)
Others(its, id) ==
    IF Len(its) = 0 THEN <<>>
    ELSE IF Head(its).id = id THEN Others(Tail(its), id)
    ELSE <<Head(its)>> \o Others(Tail(its), id)

\* C14: remove_item(id) removes every item whose id is id, keeps the others
\* in their relative order, returns true exactly when an item was removed
\* and raises no error; afterwards find_item(id) is None; when no item
\* matched, the list is unchanged and the result is false.
C14_RemoveItem ==
    [][call'.op = "remove_item" =>
          LET id == call'.arg[1]
              matched == \E i \in DOMAIN items : items[i].id = id
          IN  /\ items' = Others(items, id)
              /\ \A i \in DOMAIN items' : items'[i].id # id
              /\ find_item(items', id) = None
              /\ ret'.result = Ok
              /\ ret'.value = Some(matched)
              /\ ~matched => items' = items
              /\ order' = order]_vars

\* C14's case: remove_item("i2") took items out of the list and left the
\* item next to them.
C14_Witness ==
    /\ call = Call("remove_item", <<"i2">>)
    /\ ret.value = Some(TRUE)
    /\ items = <<PlainItem>>

\* C15: update_order_status(s) fails with MissingRequiredField, leaving the
\* document as it was, exactly when no order is present; otherwise it
\* succeeds, sets order.status to s and changes nothing else.  No facade
\* operation takes an order away, so once one is set no later update fails.
C15_UpdateOrderStatus ==
    [][/\ call'.op = "update_order_status" =>
            LET s == call'.arg[1]
            IN  /\ items' = items
                /\ IsNone(order) =>
                       /\ ret'.result = Err("MissingRequiredField", "order", "")
                       /\ order' = order
                /\ IsSome(order) =>
                       /\ ret'.result = Ok
                       /\ order' = Some([Unwrap(order) EXCEPT !.status = Some(s)])
       /\ (constructed /\ IsSome(order)) => IsSome(order')
       /\ call'.op = "set_order" => IsSome(order')]_vars

\* C15's case: the status of an order attached by set_order was updated to
\* confirmed, its type and payment staying as they were.
C15_Witness ==
    /\ call = Call("update_order_status", <<"confirmed">>)
    /\ ret.result = Ok
    /\ order = Some(Order(Some("confirmed"), Some("pickup"),
                          Some(Payment(Some(1000), Some(80), Some(200), 1280)), None))

\* The map C20 expects from parsing a built link: the action and the
\* parameters that were given, with their values.
GivenParams(action, vendor_id, location_id, item_id, customization_id) ==
    [key \in {<<"a", "c", "t", "i", "o", "n">>, <<"v">>}
             \cup (IF IsSome(location_id) THEN {<<"l">>} ELSE {})
             \cup (IF IsSome(item_id) THEN {<<"i">>} ELSE {})
             \cup (IF IsSome(customization_id) THEN {<<"c">>} ELSE {}) |->
        CASE key = <<"a", "c", "t", "i", "o", "n">> -> action
          [] key = <<"v">> -> vendor_id
          [] key = <<"l">> -> Unwrap(location_id)
          [] key = <<"i">> -> Unwrap(item_id)
          [] key = <<"c">> -> Unwrap(customization_id)]

\* "&" key "=" value for a parameter that is given, nothing for an absent one.
UrlParameter(key, value) ==
    IF IsSome(value) THEN <<"&">> \o key \o <<"=">> \o Unwrap(value) ELSE <<>>

\* C20: create_oms_url emits scheme, action, v and then l, i, c in that
\* order, leaving out the absent ones (create_order_url("v1", "i1",
\* Some("l1"), None) = "omenu://order?v=v1&l=l1&i=i1"); parse_oms_url of a
\* built link returns exactly the action and the parameters given, with their
\* original values; parse_oms_url rejects a string that does not start with
\* the scheme.
C20_DeepLinkRoundTrip ==
    [][/\ call'.op = "create_oms_url" =>
            ret'.value = Some(OMS_URL_SCHEME \o call'.arg[1] \o <<"?", "v", "=">>
                              \o call'.arg[2]
                              \o UrlParameter(<<"l">>, call'.arg[3])
                              \o UrlParameter(<<"i">>, call'.arg[4])
                              \o UrlParameter(<<"c">>, call'.arg[5]))
       /\ call' = Call("create_order_url", <<<<"v", "1">>, <<"i", "1">>, Some(<<"l", "1">>), None>>) =>
            ret'.value = Some(<<"o", "m", "e", "n", "u", ":", "/", "/", "o", "r", "d", "e", "r", "?", "v", "=", "v", "1", "&", "l", "=", "l", "1", "&", "i", "=", "i", "1">>)
       /\ (call.op = "create_oms_url" /\ call' = Call("parse_oms_url", <<Unwrap(ret.value)>>)) =>
            /\ ret'.result = Ok
            /\ ret'.value = Some(GivenParams(call.arg[1], call.arg[2], call.arg[3],
                                             call.arg[4], call.arg[5]))
       /\ (call.op = "create_order_url" /\ call' = Call("parse_oms_url", <<Unwrap(ret.value)>>)) =>
            /\ ret'.result = Ok
            /\ ret'.value = Some(GivenParams(<<"o", "r", "d", "e", "r">>, call.arg[1], call.arg[3],
                                             Some(call.arg[2]), call.arg[4]))
       /\ (call'.op = "parse_oms_url" /\ ~starts_with(call'.arg[1], OMS_URL_SCHEME)) =>
            ret'.result.kind = "InvalidOmsUrl"]_vars

\* The preset a link carries, None when it carries none or does not parse.
PresetOf(url) ==
    LET parsed == parse_oms_url(url)
    IN  IF parsed.result = Ok /\ <<"c">> \in DOMAIN Unwrap(parsed.params)
        THEN Some(Unwrap(parsed.params)[<<"c">>]) ELSE None

\* The link makes an upsert on the document: it carries a preset and the
\* first item has a customization to apply it to.
Upserts(url, its) ==
    /\ IsSome(PresetOf(url))
    /\ its # <<>>
    /\ ListOf(its[1].customizations) # <<>>

\* The positions of the entries for a customization id in a selection list.
EntriesFor(selected, id) == {k \in DOMAIN selected : selected[k].customization_id = id}

\* C16: an upsert by customization_id replaces rather than duplicates: on a
\* list with no entry or one entry for the id (so on every list grown by
\* upserts from no selections) it leaves exactly one entry for the id,
\* holding the value of this upsert, and the other entries as they were;
\* the same upsert applied a second time changes nothing.
C16_UpsertReplaces ==
    [][(call'.op = "extract_and_update_selections" /\ Upserts(call'.arg[1], items)) =>
          LET id == Unwrap(items[1].customizations)[1].id
              type == Unwrap(items[1].customizations)[1].type
              preset == Unwrap(PresetOf(call'.arg[1]))
              before == ListOf(items[1].selected_customizations)
              after == ListOf(items'[1].selected_customizations)
          IN  /\ ret'.result = Ok
              /\ IsSome(items'[1].selected_customizations)
              /\ Cardinality(EntriesFor(before, id)) <= 1 =>
                    /\ Cardinality(EntriesFor(after, id)) = 1
                    /\ \A k \in EntriesFor(after, id) :
                          /\ type \in {"single_select", "text"}
                                => after[k].selection = StringV(preset)
                          /\ type = "multi_select"
                                => after[k].selection = StringArrayV(<<preset>>)
                          /\ type \in {"quantity", "range"}
                                => after[k].selection.variant = "Number"
                          /\ type = "boolean" => after[k].selection.variant = "Boolean"
                    /\ \A k \in DOMAIN before :
                          k \notin EntriesFor(before, id) => after[k] = before[k]
                    /\ Len(after) = Len(before) + (IF EntriesFor(before, id) = {} THEN 1 ELSE 0)
              /\ (call = call' /\ ret.result = Ok) => items' = items]_vars

\* C16's case: on the Latte without selections, the upsert of c=large after
\* another upsert left the one entry size=large.
C16_Witness ==
    /\ call = Call("extract_and_update_selections",
                   <<create_order_url(<<"v", "1">>, <<"i", "1">>, None, Some(<<"l", "a", "r", "g", "e">>))>>)
    /\ items = <<Item("latte", Some(450), None, Some(<<size, milk>>),
                      Some(<<SelectedCustomization("size", StringV(<<"l", "a", "r", "g", "e">>))>>), None)>>

\* The rules of validate_customizations in the order C17 gives them, each
\* with the error that reports it.
DefinitionRules(c) ==
    <<[broken |-> c.type \in {"single_select", "multi_select"} /\ ListOf(c.options) = <<>>,
       error |-> Err("MissingRequiredField", "options for customization", c.id)],
      [broken |-> c.default.variant # VariantFor(c.type),
       error |-> Err("InvalidFieldValue", "default value type mismatch", c.id)],
      [broken |-> c.type \in {"single_select", "multi_select"}
                  /\ ~IdsInOptions(c, NamedIds(c.default)),
       error |-> Err("InvalidFieldValue", "default value not found in options", c.id)],
      [broken |-> c.type = "multi_select" /\ IsSome(c.min_selections)
                  /\ Len(c.default.a) < Unwrap(c.min_selections),
       error |-> Err("InvalidFieldValue",
                     "default selections count is less than min_selections", c.id)],
      [broken |-> c.type = "multi_select" /\ IsSome(c.max_selections)
                  /\ Len(c.default.a) > Unwrap(c.max_selections),
       error |-> Err("InvalidFieldValue",
                     "default selections count is greater than max_selections", c.id)],
      [broken |-> c.type \in {"quantity", "range"} /\ IsSome(c.min)
                  /\ c.default.n < Unwrap(c.min),
       error |-> Err("InvalidFieldValue", "default value is less than min", c.id)],
      [broken |-> c.type \in {"quantity", "range"} /\ IsSome(c.max)
                  /\ c.default.n > Unwrap(c.max),
       error |-> Err("InvalidFieldValue", "default value is greater than max", c.id)]>>

BrokenRules(c) == {r \in DOMAIN DefinitionRules(c) : DefinitionRules(c)[r].broken}

\* The least number of a non-empty set of numbers.
Least(S) == CHOOSE n \in S : \A m \in S : n <= m

\* C17: validate_customizations returns the error of the first customization
\* in list order that breaks a rule, and for that customization the error of
\* the first rule it breaks in the order options missing, default variant
\* mismatch, default id not in options, min_selections, max_selections (min
\* before max for the numeric kinds); with customization[0] failing the
\* existence check and customization[1] a bounds check, customization[0]'s
\* error is reported.
C17_FailFastInListOrder ==
    call.op = "validate_customizations" =>
        LET cs == Unwrap(items[1].customizations)
            bad == {k \in DOMAIN cs : BrokenRules(cs[k]) # {}}
        IN  /\ bad = {} => ret.result = Ok
            /\ bad # {} =>
                  ret.result = DefinitionRules(cs[Least(bad)])[Least(BrokenRules(cs[Least(bad)]))].error
            /\ (Len(cs) >= 2 /\ cs[1].id = "s2" /\ cs[2].id = "q1") =>
                  ret.result = Err("InvalidFieldValue", "default value not found in options", "s2")

\* C17's case: a list whose first customization has a default that is not
\* among its options and whose second has a default above its max was
\* refused with the first one's error.
C17_Witness ==
    /\ call.op = "validate_customizations"
    /\ Len(Unwrap(items[1].customizations)) = 2
    /\ Unwrap(items[1].customizations)[1].id = "s2"
    /\ Unwrap(items[1].customizations)[2].id = "q1"
    /\ ret.result = Err("InvalidFieldValue", "default value not found in options", "s2")

\* The namespaces the extension map holds: those add_extension was called with.
Written(exts) == IF IsSome(exts) THEN DOMAIN Unwrap(exts) ELSE {}

\* C18: the extension map is last-write-wins and never validated: after
\* add_extension(ns, d) get_extension(ns) is d whatever ns held before, the
\* other namespaces, the items and the order are as they were; get_extension
\* of a namespace never written is None; and validate() returns what it
\* returns for the same document without its extensions.
C18_ExtensionMap ==
    [][ /\ call'.op = "add_extension" =>
            /\ get_extension(extensions', call'.arg[1]) = Some(call'.arg[2])
            /\ \A ns \in (Namespaces \cup {"nonexistent"}) \ {call'.arg[1]} :
                  get_extension(extensions', ns) = get_extension(extensions, ns)
            /\ items' = items /\ order' = order
        /\ (call'.op = "get_extension" /\ call'.arg[1] \notin Written(extensions))
              => ret'.value = None
        /\ call'.op = "validate" =>
              ret'.result = validate(OmsDocument(items, order)) ]_vars

\* C18's case: add_extension has written a namespace of a document that fails
\* validate(), next to another namespace that keeps its payload.
C18_Witness ==
    /\ call.op = "add_extension"
    /\ Written(extensions) = Namespaces
    /\ \E ns \in Namespaces \ {call.arg[1]} :
          get_extension(extensions, ns) = Some("d2")
    /\ validate(Document) # Ok

\* C19: for a document D, from_json of to_json(D) and of to_compact_json(D)
\* succeeds and yields a document equal to D.
C19_JsonRoundTrip ==
    [][ (call.op \in {"to_json", "to_compact_json"} /\ call'.op = "from_json")
            => /\ ret'.result = Ok
               /\ ret'.value = Some(Document) ]_vars

\* The value is one the customization admits: it has the variant of the
\* customization's type, names options of it, and lies within its bounds.
Admits(customization, value) ==
    /\ value.variant = VariantFor(customization.type)
    /\ customization.type \in {"single_select", "multi_select"} =>
           IdsInOptions(customization, NamedIds(value))
    /\ WithinBounds(customization, value)

\* What a selection adds to the price when it is priced against the
\* customization.
PricedAgainst(c, selection) ==
    LET value == selection.selection
    IN  CASE c.type = "single_select" /\ value.variant = "String" ->
                OptionDelta(c, value.s)
          [] c.type = "multi_select" /\ value.variant = "StringArray" ->
                SumSeq([n \in 1 .. Len(value.a) |-> OptionDelta(c, value.a[n])])
          [] c.type = "quantity" /\ value.variant = "Number" ->
                value.n * (IF IsSome(c.unit_price_adjustment)
                           THEN Unwrap(c.unit_price_adjustment) ELSE 0)
          [] OTHER -> 0

\* The positions of the first customization in list order that carries the id.
FirstWith(customizations, id) ==
    {i \in DOMAIN customizations :
        /\ customizations[i].id = id
        /\ \A j \in DOMAIN customizations : j < i => customizations[j].id # id}

\* The definitions of the item pass and every required customization is
\* selected, so that validate() turns on the selections alone.
SelectionsDecide ==
    /\ call.op = "validate"
    /\ IsSome(items[1].customizations) /\ IsSome(items[1].selected_customizations)
    /\ validate_customizations(Unwrap(items[1].customizations)) = Ok
    /\ ~RequiredUnselected(Unwrap(items[1].selected_customizations),
                           Unwrap(items[1].customizations))

\* C21 as stated: with two customizations of one id, the selection validator
\* checks and the pricing engine prices a selection against the first
\* customization in list order that has the selection's id.
C21_FirstMatchLookup ==
    LET cs == ListOf(items[1].customizations)
        ss == ListOf(items[1].selected_customizations)
    IN  /\ SelectionsDecide =>
              (ret.result = Ok <=>
                  \A m \in DOMAIN ss :
                      /\ FirstWith(cs, ss[m].customization_id) # {}
                      /\ \A k \in FirstWith(cs, ss[m].customization_id) :
                            Admits(cs[k], ss[m].selection))
        /\ call.op = "calculate_price_adjustments" =>
              ret.value = Some(SumSeq([m \in 1 .. Len(ss) |->
                  LET first == FirstWith(cs, ss[m].customization_id)
                  IN  IF first = {} THEN 0
                      ELSE PricedAgainst(cs[CHOOSE k \in first : TRUE], ss[m])]))

\* C21 amended: the lookup is last-match.  The selection validator checks and
\* the pricing engine prices a selection against the last customization in
\* list order that has the selection's id.
C21_LastMatchLookup ==
    LET cs == ListOf(items[1].customizations)
        ss == ListOf(items[1].selected_customizations)
    IN  /\ SelectionsDecide =>
              (ret.result = Ok <=>
                  \A m \in DOMAIN ss :
                      /\ Referenced(cs, ss[m].customization_id) # {}
                      /\ \A k \in Referenced(cs, ss[m].customization_id) :
                            Admits(cs[k], ss[m].selection))
        /\ call.op = "calculate_price_adjustments" =>
              ret.value = Some(SumSeq([m \in 1 .. Len(ss) |->
                  LET last == Referenced(cs, ss[m].customization_id)
                  IN  IF last = {} THEN 0
                      ELSE PricedAgainst(cs[CHOOSE k \in last : TRUE], ss[m])]))

\* C21's case: milk is first a Boolean and then a SingleSelect customization;
\* the selection milk=almond passes validate() and has been priced at 0.75.
C21_Witness ==
    /\ call.op = "calculate_price_adjustments"
    /\ items[1].customizations = Some(<<milk_boolean, milk>>)
    /\ items[1].selected_customizations
          = Some(<<SelectedCustomization("milk", StringV("almond"))>>)
    /\ validate(Document) = Ok
    /\ ret.value = Some(75)

\* The first check of one item that fails: its definitions, then its
\* selections (a selection list without definitions fails undetailed).
DefinitionError(item) ==
    IF IsSome(item.customizations)
    THEN validate_customizations(Unwrap(item.customizations)) ELSE Ok

SelectionError(item) ==
    IF IsNone(item.selected_customizations) THEN Ok
    ELSE IF IsNone(item.customizations) THEN Err("ValidationError", "", "")
    ELSE validate_selected_customizations(Unwrap(item.selected_customizations),
                                          Unwrap(item.customizations))

ItemError(item) ==
    IF DefinitionError(item) # Ok THEN DefinitionError(item) ELSE SelectionError(item)

OrderError == IF IsSome(order) THEN validate_order(Unwrap(order), items) ELSE Ok

FailingItems == {i \in DOMAIN items : ItemError(items[i]) # Ok}

\* C22: validate() is one fail-fast pass: the items in list order, for each
\* its definitions before its selections, the order once after all items.
\* The error returned is the first one met, so an item error wins over an
\* order error and item k's over item k+1's, and validate() succeeds exactly
\* when no check fails.
C22_OnePassInFixedOrder ==
    (call.op = "validate" /\ items # <<>>) =>
        /\ FailingItems # {} => ret.result = ItemError(items[Least(FailingItems)])
        /\ FailingItems = {} => ret.result = OrderError
        /\ ret.result = Ok <=> (FailingItems = {} /\ OrderError = Ok)

\* C22's case: validate() has returned the definition error of the first
\* item, whose selections fail too, before a second failing item and a
\* failing order.
C22_Witness ==
    /\ call.op = "validate"
    /\ Len(items) >= 2
    /\ DefinitionError(items[1]) # Ok
    /\ SelectionError(items[1]) \notin {Ok, DefinitionError(items[1])}
    /\ ItemError(items[2]) \notin {Ok, ItemError(items[1])}
    /\ OrderError # Ok
    /\ ret.result = DefinitionError(items[1])

\* Some selection names an id that no available customization carries.
UnknownSelected(selected, available) ==
    \E m \in DOMAIN selected : Referenced(available, selected[m].customization_id) = {}

\* Every selection resolves, and its value is one the customization it
\* resolves to admits.
SelectionsAdmitted(selected, available) ==
    \A m \in DOMAIN selected :
        /\ Referenced(available, selected[m].customization_id) # {}
        /\ \A k \in Referenced(available, selected[m].customization_id) :
              Admits(available[k], selected[m].selection)

\* C23 as stated: a selection of an unknown id yields InvalidFieldValue; a
\* customization that is not required may go unselected; the result is Ok
\* exactly when every required customization is covered and every selection
\* resolves and satisfies variant, membership, cardinality and bounds.
C23_StrictIdsLenientCoverage ==
    call.op = "validate_selected_customizations" =>
        LET available == Unwrap(items[1].customizations)
            selected == Unwrap(items[1].selected_customizations)
        IN  /\ UnknownSelected(selected, available)
                  => ret.result.kind = "InvalidFieldValue"
            /\ ret.result = Ok <=>
                  /\ ~RequiredUnselected(selected, available)
                  /\ SelectionsAdmitted(selected, available)

\* C23 amended: a selection of an unknown id is always rejected, with
\* InvalidFieldValue when every required customization is covered (the
\* definitions being valid), with MissingRequiredField when one is not; the
\* rest as stated.
C23_UnknownIdsRejected ==
    call.op = "validate_selected_customizations" =>
        LET available == Unwrap(items[1].customizations)
            selected == Unwrap(items[1].selected_customizations)
        IN  /\ UnknownSelected(selected, available) =>
                  /\ ret.result # Ok
                  /\ RequiredUnselected(selected, available)
                        => ret.result.kind = "MissingRequiredField"
                  /\ (/\ ~RequiredUnselected(selected, available)
                      /\ validate_customizations(available) = Ok)
                        => ret.result.kind = "InvalidFieldValue"
            /\ ret.result = Ok <=>
                  /\ ~RequiredUnselected(selected, available)
                  /\ SelectionsAdmitted(selected, available)

\* C23's case: next to a customization that is not required and has no
\* selection, the one selection names an unknown id and is refused with
\* InvalidFieldValue.
C23_Witness ==
    /\ call.op = "validate_selected_customizations"
    /\ Unwrap(items[1].customizations) # <<>>
    /\ ~RequiredUnselected(Unwrap(items[1].selected_customizations),
                           Unwrap(items[1].customizations))
    /\ validate_customizations(Unwrap(items[1].customizations)) = Ok
    /\ UnknownSelected(Unwrap(items[1].selected_customizations),
                       Unwrap(items[1].customizations))
    /\ ret.result.kind = "InvalidFieldValue"

\* The selections whose id some customization of the list carries, in order.
Resolved(selected, customizations) ==
    LET resolves(selection) == Referenced(customizations, selection.customization_id) # {}
    IN  SelectSeq(selected, resolves)

\* C24: calculate_price_adjustments never fails and never mutates: it returns
\* Ok for every item and selection list, the selections whose id does not
\* resolve add nothing (the result is that of the resolving selections
\* alone, and 0 for an item without customizations), and the item, its
\* selections and the rest of the document are as before the call.
C24_BestEffortCalculator ==
    [][ call'.op = "calculate_price_adjustments" =>
            LET cs == ListOf(items[1].customizations)
                ss == Unwrap(items[1].selected_customizations)
            IN  /\ ret'.result = Ok
                /\ ret'.value = Some(calculate_price_adjustments(items[1], Resolved(ss, cs)))
                /\ Resolved(ss, cs) = <<>> => ret'.value = Some(0)
                /\ items' = items /\ order' = order /\ extensions' = extensions ]_vars

\* C24's case: a list with a selection of an unknown id before a size
\* downgrade has been priced, and the result is negative.
C24_Witness ==
    /\ call.op = "calculate_price_adjustments"
    /\ LET cs == ListOf(items[1].customizations)
           ss == Unwrap(items[1].selected_customizations)
       IN  /\ Len(ss) >= 2
           /\ Referenced(cs, ss[1].customization_id) = {}
           /\ Resolved(ss, cs) # <<>>
    /\ ret.result = Ok
    /\ Unwrap(ret.value) < 0

\* The positions of the items that carry the id.
ItemsWith(its, id) == {i \in DOMAIN its : its[i].id = id}

\* C25: the item list keeps insertion order and enforces no uniqueness:
\* add_item(x) makes x the last item and leaves the earlier items and their
\* order as they were, also when an item with x's id is there already;
\* find_item(id) and find_item_mut(id) give the first item in list order
\* with that id, or none when no item has it.
C25_InsertionOrderFirstMatch ==
    [][ /\ call'.op = "add_item" =>
            /\ Len(items') = Len(items) + 1
            /\ items'[Len(items')] = call'.arg[1]
            /\ \A i \in DOMAIN items : items'[i] = items[i]
        /\ call'.op \in {"find_item", "find_item_mut"} =>
            LET at == ItemsWith(items, call'.arg[1])
            IN  /\ at = {} => ret'.value = None
                /\ at # {} =>
                      ret'.value = IF call'.op = "find_item"
                                   THEN Some(items[Least(at)]) ELSE Some(Least(at))
                /\ items' = items ]_vars

\* C25's case: add_item has appended an item whose id an earlier item
\* carries already.
C25_Witness ==
    /\ call.op = "add_item"
    /\ Len(items) >= 2
    /\ items[Len(items)] = call.arg[1]
    /\ \E i \in 1 .. Len(items) - 1 :
          items[i].id = call.arg[1].id /\ items[i] # call.arg[1]

\* Every SingleSelect and MultiSelect customization of the list has a
\* non-empty options list.
SelectsHaveOptions(customizations) ==
    \A k \in DOMAIN customizations :
        customizations[k].type \in {"single_select", "multi_select"} =>
            /\ IsSome(customizations[k].options)
            /\ Unwrap(customizations[k].options) # <<>>

\* validate() goes on to the selections of item i: no earlier item fails, and
\* the item has selections and definitions that pass.
SelectionsReached(i) ==
    /\ \A j \in 1 .. i - 1 : ItemError(items[j]) = Ok
    /\ IsSome(items[i].selected_customizations)
    /\ IsSome(items[i].customizations)
    /\ DefinitionError(items[i]) = Ok

\* C26: validate() never panics: the selections of an item are validated,
\* and the options of a Select customization unwrapped, only after
\* validate_customizations has found a non-empty options list on every
\* SingleSelect and MultiSelect customization of that item, repeated ids
\* included.
C26_ValidateNeverPanics ==
    call.op = "validate" =>
        /\ ret.result # Panic
        /\ \A i \in DOMAIN items :
              SelectionsReached(i) =>
                  SelectsHaveOptions(Unwrap(items[i].customizations))

\* C26's case: validate() has checked a String selection against a
\* SingleSelect customization whose id a second customization shares.
C26_Witness ==
    /\ call.op = "validate"
    /\ SelectionsReached(1)
    /\ LET cs == Unwrap(items[1].customizations)
           ss == Unwrap(items[1].selected_customizations)
       IN  \E m \in DOMAIN ss :
               /\ Cardinality(FirstWith(cs, ss[m].customization_id)
                              \cup Referenced(cs, ss[m].customization_id)) = 2
               /\ \E k \in Referenced(cs, ss[m].customization_id) :
                     cs[k].type = "single_select"
               /\ ss[m].selection.variant = "String"
    /\ ret.result # Panic

\* Items with a selection list and no customization list, and items with no
\* selection list
Orphaned == {i \in DOMAIN items : /\ IsSome(items[i].selected_customizations)
                                  /\ IsNone(items[i].customizations)}

Unselected == {i \in DOMAIN items : IsNone(items[i].selected_customizations)}

HasRequired(item) ==
    \E k \in DOMAIN ListOf(item.customizations) :
        ListOf(item.customizations)[k].required

\* C27: an item with a selected_customizations list, even an empty one, and
\* no customizations list makes validate() fail, with the undetailed
\* ValidationError when no item before it fails; an item without a
\* selected_customizations list is judged on its definitions alone, required
\* customizations included, so a document of such items with sound
\* definitions fails only on its order.
C27_OrphanSelectionsFailAbsentPass ==
    (call.op = "validate" /\ items # <<>>) =>
        /\ \A i \in Orphaned :
              /\ ret.result # Ok
              /\ (\A j \in 1..(i - 1) : ItemError(items[j]) = Ok)
                     => ret.result = Err("ValidationError", "", "")
        /\ \A i \in Unselected :
              (\A j \in 1..(i - 1) : ItemError(items[j]) = Ok)
                  => \/ DefinitionError(items[i]) = Ok
                     \/ ret.result = DefinitionError(items[i])
        /\ (Unselected = DOMAIN items
              /\ \A i \in DOMAIN items : DefinitionError(items[i]) = Ok)
                  => ret.result = OrderError

\* C27's case: validate() has passed an item with a required customization
\* and no selection list, and has then failed with the undetailed
\* ValidationError on an item with an empty selection list and no
\* customization list.
C27_Witness ==
    /\ call.op = "validate"
    /\ Len(items) = 2
    /\ 1 \in Unselected /\ HasRequired(items[1])
    /\ 2 \in Orphaned /\ items[2].selected_customizations = Some(<<>>)
    /\ ret.result = Err("ValidationError", "", "")

\* The order generate_order leaves in the document, field by field
GeneratedFrom(price) ==
    LET subtotal == IF IsSome(price) THEN Unwrap(price) ELSE 0
    IN  /\ IsSome(order')
        /\ Unwrap(order').status = Some("draft")
        /\ Unwrap(order').type = Some("pickup")
        /\ Unwrap(order').delivery = None
        /\ IsSome(Unwrap(order').payment)
        /\ LET payment == Unwrap(Unwrap(order').payment)
           IN  /\ payment.tip = None
               /\ payment.subtotal = Some(subtotal)
               /\ IsSome(payment.tax)
               /\ 2 * Abs(100 * Unwrap(payment.tax) - 8 * subtotal) <= 100
               /\ payment.total = subtotal + Unwrap(payment.tax)

\* C28: generate_order always returns Ok and replaces whatever order there
\* was with a Draft Pickup order without delivery payload and tip, with
\* subtotal = calculate_total_price() or 0, tax = 8% of it rounded to cents
\* and total = subtotal + tax; the items and the extensions stay.  For a
\* document that passed validate() before, validate() passes afterwards
\* exactly when calculate_total_price() was a positive value and fails
\* with InvalidFieldValue on the payment total when there was no price.
C28_GenerateOrder ==
    [][call'.op = "generate_order" =>
         LET price == calculate_total_price(Document)
         IN  /\ ret'.result = Ok
             /\ GeneratedFrom(price)
             /\ items' = items /\ extensions' = extensions
             /\ validate(Document) = Ok =>
                   /\ validate(DocumentAfter) = Ok
                         <=> (IsSome(price) /\ Unwrap(price) > 0)
                   /\ IsNone(price) =>
                         validate(DocumentAfter) =
                             Err("InvalidFieldValue",
                                 "payment total must be greater than zero", "")
    ]_vars

\* C28's case: generate_order has run on a valid document priced 30.45 and
\* has left a payment with 2.44 of tax, rounded up from 2.436, and a total
\* of 32.89, which validate() accepts.
C28_Witness ==
    /\ call.op = "generate_order"
    /\ Len(items) = 2
    /\ calculate_total_price(Document) = Some(3045)
    /\ Unwrap(order).payment = Some(Payment(Some(3045), Some(244), None, 3289))
    /\ validate(Document) = Ok

\* The document without the component items of its items
Stripped(document) ==
    [document EXCEPT !.items =
        [i \in DOMAIN document.items |->
            [document.items[i] EXCEPT !.components = None]]]

\* The component items that break a rule of the item pass, and those that
\* carry a price
UnsoundComponents ==
    {<<i, k>> \in (DOMAIN items) \X (1..2) :
        /\ k \in DOMAIN ListOf(items[i].components)
        /\ ItemError(ListOf(items[i].components)[k]) # Ok}

PricedComponents ==
    {<<i, k>> \in (DOMAIN items) \X (1..2) :
        /\ k \in DOMAIN ListOf(items[i].components)
        /\ item_total(ListOf(items[i].components)[k]) # 0}

\* C29: validate() and calculate_total_price() look at top-level items
\* only: each gives what it gives on the same document without any
\* component items, so a document whose only violations are inside
\* components is accepted and the prices of components are not counted.
C29_ComponentsIgnored ==
    /\ call.op = "validate" =>
          /\ ret.result = validate(Stripped(Document))
          /\ (items # <<>> /\ FailingItems = {} /\ OrderError = Ok) => ret.result = Ok
    /\ call.op = "calculate_total_price" =>
          ret.value = Some(calculate_total_price(Stripped(Document)))

\* C29's case: validate() has accepted a document in which a component item
\* has a selection list without a customization list and another component
\* a Select customization without options.
C29_Witness ==
    /\ call.op = "validate"
    /\ ret.result = Ok
    /\ Cardinality(UnsoundComponents) >= 2
    /\ PricedComponents # {}

\* Two entries of a selection list are the same entry: the id, the variant
\* and the value held in the variant
SameEntry(x, y) ==
    /\ x.customization_id = y.customization_id
    /\ x.selection.variant = y.selection.variant
    /\ CASE x.selection.variant = "String" -> x.selection.s = y.selection.s
         [] x.selection.variant = "StringArray" -> x.selection.a = y.selection.a
         [] x.selection.variant = "Number" -> x.selection.n = y.selection.n
         [] x.selection.variant = "Boolean" -> x.selection.b = y.selection.b

\* The positions at which two selection lists differ
ChangedEntries(before, after) ==
    {k \in DOMAIN before \cup DOMAIN after :
        \/ k \notin DOMAIN before
        \/ k \notin DOMAIN after
        \/ ~SameEntry(before[k], after[k])}

\* The characters of an option id
Spelled(id) ==
    CASE id = "small" -> <<"s", "m", "a", "l", "l">>
      [] id = "medium" -> <<"m", "e", "d", "i", "u", "m">>
      [] id = "large" -> <<"l", "a", "r", "g", "e">>
      [] id = "whole" -> <<"w", "h", "o", "l", "e">>
      [] id = "almond" -> <<"a", "l", "m", "o", "n", "d">>
      [] id = "vanilla" -> <<"v", "a", "n", "i", "l", "l", "a">>
      [] id = "caramel" -> <<"c", "a", "r", "a", "m", "e", "l">>

\* The first entry for the first customization of the first item holds a
\* String that is the id of none of its options
StoredOutsideOptions ==
    /\ items # <<>>
    /\ ListOf(items[1].customizations) # <<>>
    /\ LET first == ListOf(items[1].customizations)[1]
           selected == ListOf(items[1].selected_customizations)
       IN  /\ first.type = "single_select"
           /\ EntriesFor(selected, first.id) # {}
           /\ LET k == Least(EntriesFor(selected, first.id))
              IN  /\ selected[k].selection.variant = "String"
                  /\ \A o \in DOMAIN ListOf(first.options) :
                        Spelled(ListOf(first.options)[o].id) # selected[k].selection.s

\* C30: extract_and_update_selections changes at most one thing.  It never
\* touches the order, the extensions, the items after the first or any
\* field of the first item other than its selection list.  With a parsed c
\* parameter, a first item and a non-empty customization list it returns Ok
\* and changes at most one entry of the list: the first entry for the id of
\* the first customization gets the selection made of the preset, or a new
\* entry with it is pushed, the other entries stay; the preset is stored
\* whether or not the validator would take it.  Without a c parameter,
\* without items or without customizations it returns Ok and changes
\* nothing; without the scheme it returns InvalidOmsUrl and changes nothing.
C30_UpsertFrame ==
    [][call'.op = "extract_and_update_selections" =>
         LET url == call'.arg[1]
             before == IF items = <<>> THEN <<>>
                       ELSE ListOf(items[1].selected_customizations)
             after == IF items' = <<>> THEN <<>>
                      ELSE ListOf(items'[1].selected_customizations)
         IN  /\ order' = order /\ extensions' = extensions
             /\ Len(items') = Len(items)
             /\ \A i \in DOMAIN items :
                   /\ [items'[i] EXCEPT !.selected_customizations = None]
                         = [items[i] EXCEPT !.selected_customizations = None]
                   /\ i > 1 => items'[i].selected_customizations
                                  = items[i].selected_customizations
             /\ Cardinality(ChangedEntries(before, after)) <= 1
             /\ Upserts(url, items) =>
                   LET first == Unwrap(items[1].customizations)[1]
                       stored == preset_selection(first.type, Unwrap(PresetOf(url)))
                   IN  /\ ret'.result = Ok
                       /\ IsSome(items'[1].selected_customizations)
                       /\ Len(after) =
                              Len(before) + (IF EntriesFor(before, first.id) = {} THEN 1 ELSE 0)
                       /\ \A k \in DOMAIN before :
                             before[k].customization_id # first.id
                                 => SameEntry(after[k], before[k])
                       /\ EntriesFor(after, first.id) # {}
                       /\ SameEntry(after[Least(EntriesFor(after, first.id))],
                                    SelectedCustomization(first.id, stored))
             /\ (starts_with(url, OMS_URL_SCHEME) /\ ~Upserts(url, items)) =>
                   /\ ret'.result = Ok
                   /\ ChangedEntries(before, after) = {}
                   /\ items # <<>> => IsSome(items'[1].selected_customizations)
                                         = IsSome(items[1].selected_customizations)
             /\ ~starts_with(url, OMS_URL_SCHEME) =>
                   /\ ret'.result.kind = "InvalidOmsUrl"
                   /\ ChangedEntries(before, after) = {}
                   /\ items # <<>> => IsSome(items'[1].selected_customizations)
                                         = IsSome(items[1].selected_customizations)
    ]_vars

\* C30's case: on a document with a second item, an order and an extension,
\* a link has put a preset that is no option of the first customization
\* into the first item, next to the selection of another customization.
C30_Witness ==
    /\ call.op = "extract_and_update_selections"
    /\ ret.result = Ok
    /\ Len(items) = 2 /\ IsSome(order) /\ IsSome(extensions)
    /\ StoredOutsideOptions
    /\ Len(ListOf(items[1].selected_customizations)) = 2

====
